---- MODULE Spec2Model ----
(***************************************************************************)
(* Model of the marketplace server's routes (src/src/routes/chat.ts: the   *)
(* chat router, lines 9-308, the products router, 312-791, the reviews     *)
(* router, 802-1050, and the auth router, 1099-1865) and of the product    *)
(* scheduler, over the Product, User, EmailCode, ChatRoom and Review       *)
(* collections and the image files.  Strings are sequences of one-character*)
(* strings so that trimming, lower-casing, splitting, substring search and *)
(* the $regex title filter are computed instead of assumed.                *)
(***************************************************************************)
EXTENDS Integers, Sequences, FiniteSets, TLC

VARIABLES
    products,   \* the Product collection, in natural (insertion) order
    history,    \* per user: recentlyViewedProducts and sharedProducts
    nextId,     \* the next _id the store hands out (ids are never reused)
    now,        \* the clock that stamps createdAt
    response,   \* the reply of the most recent request
    locals,     \* the locals of the most recent handler at its return
    users,      \* the User collection's account and game fields
    codes,      \* the EmailCode collection
    verified,   \* history: the emails whose code a verify-code request accepted
    rooms,      \* the ChatRoom collection
    reviews,    \* the Review collection
    files       \* the image files under /uploads/ on disk

vars == <<products, history, nextId, now, response, locals,
          users, codes, verified, rooms, reviews, files>>

\* the variables outside the product routes' discovery state
others == <<users, codes, verified, rooms, reviews, files>>

\* nothing stored outside the Product collection and the users' histories
OthersInit ==
    /\ users = <<>>
    /\ codes = {}
    /\ verified = {}
    /\ rooms = <<>>
    /\ reviews = <<>>
    /\ files = {}

(***************************************************************************)
(* Bounds of the model.                                                    *)
(***************************************************************************)
MaxProducts == 3    \* products ever created
MaxShare == 1       \* share requests accepted per product
MaxHistory == 1     \* history entries a user collects in the discovery runs

(***************************************************************************)
(* Program constants.  The result cap (200), the liked-listing cap (40)    *)
(* and the history cap (50) are scaled down; the candidate pool             *)
(* stays at twice the result cap.                                          *)
(***************************************************************************)
HISTORY_LIMIT == 2
limit == 2
LikedLimit == 1
ListLimit == 2

Users == {"u1"}
NoUser == "anonymous"       \* readUserFromReq returned null
Callers == Users \cup {NoUser}
Null == "null"
NoLocals == [handler |-> "other"]  \* a handler whose locals are not kept
NoDate == 0                 \* a Date field that is null; dates are 1 and later

(***************************************************************************)
(* Strings.                                                                *)
(***************************************************************************)
Min(a, b) == IF a < b THEN a ELSE b

\* String.prototype.toLowerCase over the model's alphabet
LowerChar(c) ==
    CASE c = "B" -> "b"
      [] c = "S" -> "s"
      [] c = "X" -> "x"
      [] OTHER -> c

toLowerCase(s) == [i \in 1..Len(s) |-> LowerChar(s[i])]

IsSpace(c) == c = " "

\* String.prototype.trim
RECURSIVE trimStart(_)
trimStart(s) ==
    IF s # <<>> /\ IsSpace(Head(s)) THEN trimStart(Tail(s)) ELSE s

RECURSIVE trimEnd(_)
trimEnd(s) ==
    IF s # <<>> /\ IsSpace(s[Len(s)])
    THEN trimEnd(SubSeq(s, 1, Len(s) - 1))
    ELSE s

trim(s) == trimEnd(trimStart(s))

\* the character class of keywordSplitRegex: [\s,.;:/\\|()+\-_"'!?]
IsSplitChar(c) ==
    c \in {" ", ",", ".", ";", ":", "/", "\\", "|", "(", ")", "+", "-", "_",
           "\"", "'", "!", "?"}

\* String.prototype.split(keywordSplitRegex): the maximal runs of
\* non-separator characters, and the empty string where the text starts or
\* ends with a separator run (or is empty)
split(s) ==
    LET n == Len(s)
        IsRun(i, j) ==
            /\ i <= j
            /\ \A k \in i..j : ~IsSplitChar(s[k])
            /\ (i = 1 \/ IsSplitChar(s[i - 1]))
            /\ (j = n \/ IsSplitChar(s[j + 1]))
    IN  { SubSeq(s, ij[1], ij[2]) :
            ij \in { p \in (1..n) \X (1..n) : IsRun(p[1], p[2]) } }
        \cup (IF n = 0 \/ IsSplitChar(s[1]) \/ IsSplitChar(s[n])
              THEN {<<>>} ELSE {})

\* String.prototype.includes
includes(hay, needle) ==
    \E i \in 0..(Len(hay) - Len(needle)) :
        SubSeq(hay, i + 1, i + Len(needle)) = needle

\* { $regex: pattern, $options: "i" }: an unanchored, case-insensitive
\* search; "." is the one metacharacter of the model's alphabet
regexTest(pattern, text) ==
    \E i \in 0..(Len(text) - Len(pattern)) :
        \A k \in 1..Len(pattern) :
            \/ pattern[k] = "."
            \/ LowerChar(pattern[k]) = LowerChar(text[i + k])

\* addKeywords that assigns the title's words instead of adding them
addKeywords_replace(set, title) ==
    IF title = <<>> THEN set
    ELSE { w \in { trim(f) : f \in split(toLowerCase(title)) } : Len(w) >= 2 }

\* addKeywords keeping words of any length
addKeywords_noLengthFilter(set, title) ==
    IF title = <<>> THEN set
    ELSE set \cup { trim(f) : f \in split(toLowerCase(title)) }

\* addKeywords(set, title): the set after the call
addKeywords(set, title) ==
    IF title = <<>> THEN set
    ELSE set \cup { w \in { trim(f) : f \in split(toLowerCase(title)) } :
                      Len(w) >= 2 }

\* hasKeywordMatch comparing the title as written
hasKeywordMatch_caseSensitive(title, keywords) ==
    IF title = <<>> \/ keywords = {} THEN FALSE
    ELSE \E keyword \in keywords : includes(title, keyword)

\* hasKeywordMatch(title, keywords)
hasKeywordMatch(title, keywords) ==
    IF title = <<>> \/ keywords = {} THEN FALSE
    ELSE LET lowerTitle == toLowerCase(title)
         IN  \E keyword \in keywords : includes(lowerTitle, keyword)

(***************************************************************************)
(* Request inputs.                                                         *)
(***************************************************************************)
TitleBike == <<"B", "i", "k", "e", "-", "X">>
TitleBikes == <<"b", "i", "k", "e", "s">>
TitleSofa == <<" ", "S", "o", "f", "a">>
CatA == <<"a">>
CatB == <<"b">>

\* bodies of POST /api/products
Bodies ==
    { [title |-> TitleBike, category |-> CatA],
      [title |-> TitleBikes, category |-> CatB],
      [title |-> TitleSofa, category |-> CatA] }

\* values of the q parameter; absent is the empty string
QueryNone == <<>>
QuerySo == <<" ", "S", "o">>

Queries == { QueryNone, QuerySo }

\* the q, category and sort parameters of the GET / requests made
ListRequests ==
    { [q |-> QueryNone, category |-> <<>>, sort |-> Null],
      [q |-> QuerySo, category |-> <<>>, sort |-> Null],
      [q |-> QueryNone, category |-> <<>>, sort |-> "popular"],
      [q |-> QuerySo, category |-> CatA, sort |-> "popular"] }

ProductIds == 1..MaxProducts

(***************************************************************************)
(* The store.                                                              *)
(***************************************************************************)
Range(s) == { s[i] : i \in 1..Len(s) }

Take(s, n) == SubSeq(s, 1, Min(n, Len(s)))

\* Product.findById: whether a document has the id, and that document
exists(id) == \E i \in 1..Len(products) : products[i]._id = id

indexOf(id) == CHOOSE i \in 1..Len(products) : products[i]._id = id

findById(id) == products[indexOf(id)]

\* item.save() of a loaded document
saved(item) == [products EXCEPT ![indexOf(item._id)] = item]

\* a > b on equal-length tuples of numbers, lexicographically
LexGreater(a, b) ==
    \E i \in 1..Len(a) :
        /\ a[i] > b[i]
        /\ \A j \in 1..(i - 1) : a[j] = b[j]

\* a descending sort of <<key, document>> pairs; documents with equal keys
\* keep their input order
RECURSIVE InsertDesc(_, _)
InsertDesc(x, s) ==
    IF s = <<>> THEN <<x>>
    ELSE IF LexGreater(x[1], Head(s)[1]) THEN <<x>> \o s
    ELSE <<Head(s)>> \o InsertDesc(x, Tail(s))

RECURSIVE SortDesc(_)
SortDesc(s) ==
    IF s = <<>> THEN <<>>
    ELSE InsertDesc(s[Len(s)], SortDesc(SubSeq(s, 1, Len(s) - 1)))

Docs(pairs) == [i \in 1..Len(pairs) |-> pairs[i][2]]

\* .sort({ createdAt: -1 })
sortCreatedAtDesc(docs) ==
    Docs(SortDesc([i \in 1..Len(docs) |-> <<<<docs[i].createdAt>>, docs[i]>>]))

\* a find filter is a function from the keys it sets: title to a $regex
\* pattern with $options "i", category to a value, likedBy to a user that the
\* array contains, _id to the set of an $in
matchesFilter(filter, doc) ==
    /\ "title" \in DOMAIN filter => regexTest(filter.title, doc.title)
    /\ "category" \in DOMAIN filter => doc.category = filter.category
    /\ "likedBy" \in DOMAIN filter => filter.likedBy \in Range(doc.likedBy)
    /\ "_id" \in DOMAIN filter => doc._id \in filter._id

\* Product.find(filter), in natural order
find(filter) == SelectSeq(products, LAMBDA d : matchesFilter(filter, d))

(***************************************************************************)
(* Image files.  An image path is a pair of its prefix and the rest, so    *)
(* that startsWith("/uploads/") is a test of the first part; files holds   *)
(* the paths, relative to process.cwd(), at which a file exists.           *)
(***************************************************************************)
\* images: the zod schema's .optional().default([])
imagesOf(body) == IF "images" \in DOMAIN body THEN body.images ELSE <<>>

startsWithUploads(img) == img[1] = "/uploads/"

\* deleteProductImages unlinking every path
deleteProductImages_anyPath(images) ==
    { files \ removed : removed \in SUBSET (images \cap files) }

\* deleteProductImages(images): the files left on disk.  fs.unlink of each
\* path under /uploads/ removes the file or fails (no such file, no
\* permission); a failure is caught and the loop goes on
deleteProductImages(images) ==
    LET uploads == { img \in images : startsWithUploads(img) }
    IN  { files \ removed : removed \in SUBSET (uploads \cap files) }

(***************************************************************************)
(* POST /api/products                                                      *)
(***************************************************************************)
CreateProduct(user, body) ==
    /\ nextId <= MaxProducts
    /\ IF user = NoUser
       THEN /\ response' = [status |-> 401]
            /\ UNCHANGED <<products, nextId, now>>
       ELSE /\ products' = Append(products,
                [_id |-> nextId,
                 seller |-> user,
                 title |-> trim(body.title),
                 category |-> body.category,
                 images |-> imagesOf(body),
                 status |-> "selling",
                 likedBy |-> <<>>,
                 shareCount |-> 0,
                 soldAt |-> NoDate,
                 createdAt |-> now])
            /\ nextId' = nextId + 1
            /\ now' = now + 1
            /\ response' = [status |-> 201]
    /\ locals' = NoLocals
    /\ UNCHANGED history
    /\ UNCHANGED others

(***************************************************************************)
(* GET /api/products                                                       *)
(***************************************************************************)
\* popularPipeline with shareCount sorted before likeCount
popularPipeline_shareFirst(matched) ==
    LET withCounts ==
            [i \in 1..Len(matched) |->
                [likeCount |-> Len(matched[i].likedBy)] @@ matched[i]]
        sorted ==
            Docs(SortDesc([i \in 1..Len(withCounts) |->
                <<<<withCounts[i].likeCount + withCounts[i].shareCount,
                    withCounts[i].shareCount, withCounts[i].likeCount,
                    withCounts[i].createdAt>>,
                  withCounts[i]>>]))
    IN  Take(sorted, ListLimit)

\* the $addFields, $sort, $limit and $project stages of the popular
\* pipeline: the documents leave it with likeCount added, shareCount
\* defaulted and popularityScore removed
popularPipeline(matched) ==
    LET withCounts ==
            [i \in 1..Len(matched) |->
                [likeCount |-> Len(matched[i].likedBy)] @@ matched[i]]
        scored ==
            [i \in 1..Len(matched) |->
                [popularityScore |->
                    withCounts[i].likeCount + withCounts[i].shareCount]
                @@ withCounts[i]]
        sorted ==
            Docs(SortDesc([i \in 1..Len(scored) |->
                <<<<scored[i].popularityScore, scored[i].likeCount,
                    scored[i].shareCount, scored[i].createdAt>>,
                  withCounts[i]>>]))
    IN  Take(sorted, ListLimit)

listFilter(q, category) ==
    [k \in (IF trim(q) # <<>> THEN {"title"} ELSE {})
            \cup (IF trim(category) # <<>> THEN {"category"} ELSE {}) |->
        IF k = "title" THEN trim(q) ELSE trim(category)]

listProducts(q, category, sort) ==
    IF sort = "popular"
    THEN popularPipeline(find(listFilter(q, category)))
    ELSE Take(sortCreatedAtDesc(find(listFilter(q, category))), ListLimit)

\* ListProducts that also forgets every user's history
ListProducts_clearsHistory(q, category, sort) ==
    /\ response' = [status |-> 200, products |-> listProducts(q, category, sort)]
    /\ locals' = [handler |-> "list", q |-> q, category |-> category,
                  sort |-> sort]
    /\ history' = [u \in Users |->
                    [recentlyViewedProducts |-> <<>>, sharedProducts |-> <<>>]]
    /\ UNCHANGED <<products, nextId, now>>
    /\ UNCHANGED others

ListProducts(q, category, sort) ==
    /\ response' = [status |-> 200, products |-> listProducts(q, category, sort)]
    /\ locals' = [handler |-> "list", q |-> q, category |-> category,
                  sort |-> sort]
    /\ UNCHANGED <<products, history, nextId, now>>
    /\ UNCHANGED others

(***************************************************************************)
(* GET /api/products/recommend                                             *)
(***************************************************************************)
\* keywordOf without the trim
keywordOf_noTrim(q) == q

\* ((req.query.q as string) || "").trim()
keywordOf(q) == trim(q)

keywordFilter(keyword) ==
    [k \in (IF keyword # <<>> THEN {"title"} ELSE {}) |-> keyword]

\* fetchDefaultList without the keyword filter
fetchDefaultList_unfiltered(keyword) ==
    Take(sortCreatedAtDesc(find(keywordFilter(<<>>))), limit)

\* fetchDefaultList
fetchDefaultList(keyword) ==
    Take(sortCreatedAtDesc(find(keywordFilter(keyword))), limit)

\* the history loads: Product.find({ likedBy }).limit(40), and the two
\* $in lookups over the first HISTORY_LIMIT ids of each history
likedProductsOf(user) == Take(find([likedBy |-> user]), LikedLimit)

sharedProductsOf(user) ==
    LET sharedIds == Take(history[user].sharedProducts, HISTORY_LIMIT)
    IN  IF Len(sharedIds) # 0 THEN find([_id |-> Range(sharedIds)]) ELSE <<>>

viewedProductsOf(user) ==
    LET viewedIds == Take(history[user].recentlyViewedProducts, HISTORY_LIMIT)
    IN  IF Len(viewedIds) # 0 THEN find([_id |-> Range(viewedIds)]) ELSE <<>>

\* new Set(sources.map(p => (p.category || "").trim()).filter(Boolean))
categoriesOf(sources) ==
    { c \in { trim(sources[i].category) : i \in 1..Len(sources) } : c # <<>> }

\* sources.forEach(p => addKeywords(set, p.title)), then the caller's keyword
RECURSIVE titleKeywords(_)
titleKeywords(sources) ==
    IF sources = <<>> THEN {}
    ELSE addKeywords(titleKeywords(SubSeq(sources, 1, Len(sources) - 1)),
                     sources[Len(sources)].title)

\* keywordsOf without the caller's keyword
keywordsOf_titlesOnly(sources, keyword) == titleKeywords(sources)

keywordsOf(sources, keyword) ==
    titleKeywords(sources)
        \cup (IF keyword # <<>> THEN {toLowerCase(keyword)} ELSE {})

\* noSignal with the keyword test inverted
noSignal_keywordGiven(primarySources, secondarySources, keyword) ==
    /\ Len(primarySources) = 0
    /\ Len(secondarySources) = 0
    /\ keyword # <<>>

\* the test that sends an identified caller to the default list
noSignal(primarySources, secondarySources, keyword) ==
    /\ Len(primarySources) = 0
    /\ Len(secondarySources) = 0
    /\ keyword = <<>>

\* excludeIdsOf without the recently viewed listings
excludeIdsOf_primaryOnly(primarySources, secondarySources) ==
    { primarySources[i]._id : i \in 1..Len(primarySources) }

\* new Set([...primarySources.map(_id), ...secondarySources.map(_id)])
excludeIdsOf(primarySources, secondarySources) ==
    { primarySources[i]._id : i \in 1..Len(primarySources) }
        \cup { secondarySources[i]._id : i \in 1..Len(secondarySources) }

\* whether a candidate matches an interest profile: its category is in the
\* profile's category set or its title matches the profile's keyword set
matchesProfile(product, profile) ==
    LET matchesCategory ==
            product.category # <<>> /\ product.category \in profile.categories
        matchesKeyword == hasKeywordMatch(product.title, profile.keywords)
    IN  matchesCategory \/ matchesKeyword

\* tierOf with the exclusion test dropped
tierOf_noExclude(product, excludeIds, primary, secondary) ==
    IF matchesProfile(product, primary) THEN "primary"
    ELSE IF matchesProfile(product, secondary) THEN "secondary"
    ELSE "fallback"

\* tierOf with the exclusion test made after the primary test
tierOf_excludeAfterPrimary(product, excludeIds, primary, secondary) ==
    IF matchesProfile(product, primary) THEN "primary"
    ELSE IF product._id \in excludeIds THEN "excluded"
    ELSE IF matchesProfile(product, secondary) THEN "secondary"
    ELSE "fallback"

\* tierOf with the secondary test made before the primary test
tierOf_secondaryFirst(product, excludeIds, primary, secondary) ==
    IF product._id \in excludeIds THEN "excluded"
    ELSE IF matchesProfile(product, secondary) THEN "secondary"
    ELSE IF matchesProfile(product, primary) THEN "primary"
    ELSE "fallback"

\* the branch of the scoring loop a candidate takes
tierOf(product, excludeIds, primary, secondary) ==
    IF product._id \in excludeIds THEN "excluded"
    ELSE IF matchesProfile(product, primary) THEN "primary"
    ELSE IF matchesProfile(product, secondary) THEN "secondary"
    ELSE "fallback"

\* merge with the fallback tier put first
merge_fallbackFirst(primaryMatches, secondaryMatches, fallbackMatches) ==
    Take(fallbackMatches \o primaryMatches \o secondaryMatches, limit)

\* merge with the fallback tier left out
merge_noFallback(primaryMatches, secondaryMatches, fallbackMatches) ==
    Take(primaryMatches \o secondaryMatches, limit)

\* merge without the slice
merge_noSlice(primaryMatches, secondaryMatches, fallbackMatches) ==
    primaryMatches \o secondaryMatches \o fallbackMatches

\* [...primaryMatches, ...secondaryMatches, ...fallbackMatches].slice(0, limit)
merge(primaryMatches, secondaryMatches, fallbackMatches) ==
    Take(primaryMatches \o secondaryMatches \o fallbackMatches, limit)

\* the locals of the handler when it reaches the scoring loop
scoring(user, keyword) ==
    LET likedProducts == likedProductsOf(user)
        sharedProducts == sharedProductsOf(user)
        viewedProducts == viewedProductsOf(user)
        primarySources == likedProducts \o sharedProducts
        secondarySources == viewedProducts
        primaryCategories == categoriesOf(primarySources)
        secondaryCategories == categoriesOf(secondarySources)
        primaryKeywords == keywordsOf(primarySources, keyword)
        secondaryKeywords == keywordsOf(secondarySources, keyword)
        excludeIds == excludeIdsOf(primarySources, secondarySources)
        candidates ==
            Take(sortCreatedAtDesc(find(keywordFilter(keyword))), limit * 2)
        tier == [id \in { candidates[i]._id : i \in 1..Len(candidates) } |->
                    tierOf(findById(id), excludeIds,
                           [categories |-> primaryCategories,
                            keywords |-> primaryKeywords],
                           [categories |-> secondaryCategories,
                            keywords |-> secondaryKeywords])]
        primaryMatches ==
            SelectSeq(candidates, LAMBDA d : tier[d._id] = "primary")
        secondaryMatches ==
            SelectSeq(candidates, LAMBDA d : tier[d._id] = "secondary")
        fallbackMatches ==
            SelectSeq(candidates, LAMBDA d : tier[d._id] = "fallback")
    IN  [primarySources |-> primarySources,
         secondarySources |-> secondarySources,
         primaryCategories |-> primaryCategories,
         secondaryCategories |-> secondaryCategories,
         primaryKeywords |-> primaryKeywords,
         secondaryKeywords |-> secondaryKeywords,
         excludeIds |-> excludeIds,
         candidates |-> candidates,
         primaryMatches |-> primaryMatches,
         secondaryMatches |-> secondaryMatches,
         fallbackMatches |-> fallbackMatches,
         merged |-> merge(primaryMatches, secondaryMatches, fallbackMatches)]

Recommend(user, q) ==
    LET keyword == keywordOf(q)
        request == [handler |-> "recommend", user |-> user, q |-> q,
                    keyword |-> keyword]
    IN  /\ IF user = NoUser
           THEN /\ response' =
                    [status |-> 200,
                     products |->
                        IF keyword = <<>> THEN fetchDefaultList(keyword)
                        ELSE Take(sortCreatedAtDesc(find(keywordFilter(keyword))),
                                  limit)]
                /\ locals' = request @@ [path |-> "anonymous"]
           ELSE IF noSignal(likedProductsOf(user) \o sharedProductsOf(user),
                            viewedProductsOf(user), keyword)
           THEN /\ response' =
                    [status |-> 200, products |-> fetchDefaultList(keyword)]
                /\ locals' = request @@ [path |-> "no signal"]
           ELSE LET l == scoring(user, keyword)
                IN  IF Len(l.merged) = 0
                    THEN /\ response' =
                            [status |-> 200,
                             products |-> fetchDefaultList(keyword)]
                         /\ locals' = request @@ l @@ [path |-> "no match"]
                    ELSE /\ response' = [status |-> 200, products |-> l.merged]
                         /\ locals' = request @@ l @@ [path |-> "scored"]
        /\ UNCHANGED <<products, history, nextId, now>>
        /\ UNCHANGED others

(***************************************************************************)
(* POST /api/products/:id/like                                             *)
(***************************************************************************)
ToggleLike(user, id) ==
    /\ IF user = NoUser
       THEN /\ response' = [status |-> 401]
            /\ UNCHANGED products
       ELSE IF ~exists(id)
       THEN /\ response' = [status |-> 404]
            /\ UNCHANGED products
       ELSE LET item == findById(id)
                likedBy == item.likedBy
                isLiked == \E i \in 1..Len(likedBy) : likedBy[i] = user
            IN  /\ products' = saved(
                        IF isLiked
                        THEN [item EXCEPT !.likedBy =
                                SelectSeq(likedBy, LAMBDA x : x # user)]
                        ELSE [item EXCEPT !.likedBy = Append(likedBy, user)])
                /\ response' = [status |-> 200]
    /\ locals' = NoLocals
    /\ UNCHANGED <<history, nextId, now>>
    /\ UNCHANGED others

\* pushFront adding at the end
pushFront_append(list, id) == Take(list \o <<id>>, HISTORY_LIMIT)

\* $push with $each [id], $position 0 and $slice HISTORY_LIMIT
pushFront(list, id) == Take(<<id>> \o list, HISTORY_LIMIT)

(***************************************************************************)
(* POST /api/products/:id/share                                            *)
(***************************************************************************)
ShareProduct(user, id) ==
    /\ IF ~exists(id)
       THEN /\ response' = [status |-> 404]
            /\ UNCHANGED <<products, history>>
       ELSE LET item == findById(id)
            IN  /\ item.shareCount < MaxShare
                /\ products' =
                        saved([item EXCEPT !.shareCount = item.shareCount + 1])
                /\ history' =
                        IF user # NoUser
                        THEN [history EXCEPT ![user].sharedProducts =
                                pushFront(@, item._id)]
                        ELSE history
                /\ response' = [status |-> 200]
    /\ locals' = NoLocals
    /\ UNCHANGED <<nextId, now>>
    /\ UNCHANGED others

(***************************************************************************)
(* GET /api/products/:id                                                   *)
(***************************************************************************)
GetProduct(user, id) ==
    /\ IF ~exists(id)
       THEN /\ response' = [status |-> 404]
            /\ UNCHANGED history
       ELSE LET item == findById(id)
            IN  /\ history' =
                        IF user # NoUser
                        THEN [history EXCEPT ![user].recentlyViewedProducts =
                                pushFront(@, item._id)]
                        ELSE history
                /\ response' = [status |-> 200]
    /\ locals' = NoLocals
    /\ UNCHANGED <<products, nextId, now>>
    /\ UNCHANGED others

Init ==
    /\ products = <<>>
    /\ history = [u \in Users |->
                    [recentlyViewedProducts |-> <<>>, sharedProducts |-> <<>>]]
    /\ nextId = 1
    /\ now = 1
    /\ response = [status |-> 0]
    /\ locals = NoLocals
    /\ OthersInit

Next ==
    \/ \E user \in Callers, body \in Bodies : CreateProduct(user, body)
    \/ \E r \in ListRequests : ListProducts(r.q, r.category, r.sort)
    \/ \E user \in Callers, q \in Queries : Recommend(user, q)
    \/ \E user \in Callers, id \in ProductIds : ToggleLike(user, id)
    \/ \E user \in Users, id \in ProductIds :
            /\ Len(history[user].sharedProducts) < MaxHistory
            /\ ShareProduct(user, id)
    \/ \E user \in Callers, id \in ProductIds :
            /\ user \in Users =>
                    Len(history[user].recentlyViewedProducts) < MaxHistory
            /\ GetProduct(user, id)

Spec == Init /\ [][Next]_vars

(***************************************************************************)
(* Vocabulary of the claims.                                               *)
(***************************************************************************)
IsRecommend == locals.handler = "recommend"

\* the request was answered by an identified caller's recommend handler
Identified == IsRecommend /\ locals.user \in Users

\* the handler ran the scoring loop
RanScoring == IsRecommend /\ locals.path \in {"scored", "no match"}

PositionIn(seq, doc) == CHOOSE i \in 1..Len(seq) : seq[i] = doc

\* the entries of sub occur in seq, in the same relative order
KeepsOrderOf(sub, seq) ==
    /\ \A i \in 1..Len(sub) : sub[i] \in Range(seq)
    /\ \A i, j \in 1..Len(sub) :
            i < j => PositionIn(seq, sub[i]) < PositionIn(seq, sub[j])

\* how many times doc occurs in seq
Occurrences(seq, doc) == Cardinality({ i \in 1..Len(seq) : seq[i] = doc })

\* the title contains one of the keywords, ignoring the title's case
TitleHasKeyword(title, keywords) ==
    \E k \in keywords : includes(toLowerCase(title), k)

MatchesPrimary(doc) ==
    \/ doc.category \in locals.primaryCategories
    \/ TitleHasKeyword(doc.title, locals.primaryKeywords)

MatchesSecondary(doc) ==
    \/ doc.category \in locals.secondaryCategories
    \/ TitleHasKeyword(doc.title, locals.secondaryKeywords)

\* the listings of the store whose title matches the keyword
Matching(keyword) ==
    { d \in Range(products) : keyword = <<>> \/ regexTest(keyword, d.title) }

\* list is the default-mode result for the keyword: the matching listings,
\* most recent first, capped at the result limit
IsDefaultResult(list, keyword) ==
    /\ Range(list) \subseteq Matching(keyword)
    /\ Len(list) = Min(limit, Cardinality(Matching(keyword)))
    /\ \A i, j \in 1..Len(list) :
            i < j => list[i].createdAt > list[j].createdAt
    /\ \A d \in Matching(keyword) \ Range(list) :
            \A i \in 1..Len(list) : list[i].createdAt > d.createdAt

\* the listings the user currently likes, and those in the user's histories
LikedBy(user) == { d._id : d \in { p \in Range(products) : user \in Range(p.likedBy) } }

InHistory(user) ==
    Range(history[user].sharedProducts)
        \cup Range(history[user].recentlyViewedProducts)

\* the liked listings the handler loads: the first LikedLimit in natural order
LoadedLikes(user) ==
    { products[i]._id : i \in { k \in 1..Len(products) :
        /\ user \in Range(products[k].likedBy)
        /\ Cardinality({ m \in 1..k : user \in Range(products[m].likedBy) })
                <= LikedLimit } }

(***************************************************************************)
(* C1: for an identified recommend request whose merged result is not      *)
(* empty, the response is the primary tier, then the secondary tier, then  *)
(* the fallback tier, cut to the first `limit` entries; each tier keeps    *)
(* the candidate pool's order; and a non-excluded candidate whose category *)
(* is in the primary category set comes before every candidate that        *)
(* matches neither profile.                                                *)
(***************************************************************************)
C1_TiersConcatenated ==
    (Identified /\ locals.path = "scored") =>
        LET out == response.products
            all == locals.primaryMatches \o locals.secondaryMatches
                        \o locals.fallbackMatches
        IN  /\ out = SubSeq(all, 1, Min(limit, Len(all)))
            /\ KeepsOrderOf(locals.primaryMatches, locals.candidates)
            /\ KeepsOrderOf(locals.secondaryMatches, locals.candidates)
            /\ KeepsOrderOf(locals.fallbackMatches, locals.candidates)
            /\ \A x, y \in Range(locals.candidates) :
                    ( /\ x._id \notin locals.excludeIds
                      /\ x.category \in locals.primaryCategories
                      /\ y._id \notin locals.excludeIds
                      /\ ~MatchesPrimary(y) /\ ~MatchesSecondary(y)
                      /\ y \in Range(out) )
                    => /\ x \in Range(out)
                       /\ PositionIn(out, x) < PositionIn(out, y)

\* an older listing that matches by category only is returned before a newer
\* listing that matches neither profile
C1_Witness ==
    /\ Identified /\ locals.path = "scored"
    /\ Len(response.products) = 2
    /\ response.products[1].createdAt < response.products[2].createdAt
    /\ response.products[1].category \in locals.primaryCategories
    /\ ~TitleHasKeyword(response.products[1].title, locals.primaryKeywords)
    /\ ~MatchesPrimary(response.products[2])
    /\ ~MatchesSecondary(response.products[2])

(***************************************************************************)
(* C2: the scoring loop puts every non-excluded candidate into exactly one *)
(* tier and no excluded candidate into any, so the three tier lengths add  *)
(* up to the pool length minus the number of excluded pool entries.        *)
(***************************************************************************)
C2_TiersPartitionPool ==
    RanScoring =>
        LET pool == locals.candidates
            placed(d) == Occurrences(locals.primaryMatches, d)
                            + Occurrences(locals.secondaryMatches, d)
                            + Occurrences(locals.fallbackMatches, d)
            excluded == { i \in 1..Len(pool) : pool[i]._id \in locals.excludeIds }
        IN  /\ Len(locals.primaryMatches) + Len(locals.secondaryMatches)
                    + Len(locals.fallbackMatches)
                = Len(pool) - Cardinality(excluded)
            /\ \A i \in 1..Len(pool) :
                    placed(pool[i]) = IF i \in excluded THEN 0 ELSE 1
            /\ Range(locals.primaryMatches) \cup Range(locals.secondaryMatches)
                    \cup Range(locals.fallbackMatches) \subseteq Range(pool)

\* a pool with an excluded entry, a secondary match and a fallback entry
C2_Witness ==
    /\ RanScoring
    /\ \E i \in 1..Len(locals.candidates) :
            locals.candidates[i]._id \in locals.excludeIds
    /\ Len(locals.secondaryMatches) = 1
    /\ Len(locals.fallbackMatches) = 1

(***************************************************************************)
(* C3: no listing of the secondary tier has a category in the primary      *)
(* category set or a title that keyword-matches the primary keyword set,   *)
(* and every listing of the fallback tier matches neither profile.         *)
(***************************************************************************)
C3_TierPrecedence ==
    RanScoring =>
        /\ \A i \in 1..Len(locals.secondaryMatches) :
                ~MatchesPrimary(locals.secondaryMatches[i])
        /\ \A i \in 1..Len(locals.fallbackMatches) :
                /\ ~MatchesPrimary(locals.fallbackMatches[i])
                /\ ~MatchesSecondary(locals.fallbackMatches[i])

\* a caller with liked and viewed listings; a candidate that matches both
\* profiles was placed in the primary tier
C3_Witness ==
    /\ RanScoring
    /\ \E d \in Range(locals.candidates) :
            /\ d._id \notin locals.excludeIds
            /\ MatchesPrimary(d) /\ MatchesSecondary(d)
            /\ d \in Range(locals.primaryMatches)
    /\ locals.primarySources # <<>>
    /\ locals.secondarySources # <<>>

(***************************************************************************)
(* C4: no listing whose identity is in excludeIds appears in the merged    *)
(* list.                                                                   *)
(***************************************************************************)
C4_MergedHasNoExcluded ==
    RanScoring =>
        \A i \in 1..Len(locals.merged) :
            locals.merged[i]._id \notin locals.excludeIds

\* a non-empty merged list computed from a pool that holds an excluded listing
C4_Witness ==
    /\ RanScoring
    /\ Len(locals.merged) > 0
    /\ \E i \in 1..Len(locals.candidates) :
            /\ locals.candidates[i]._id \in locals.excludeIds
            /\ MatchesPrimary(locals.candidates[i])

(***************************************************************************)
(* C5, as claimed: for an identified caller, the products returned by      *)
(* recommend never contain a listing the user currently likes or one in    *)
(* the user's shared or recently viewed history, on every response path.   *)
(***************************************************************************)
C5_NeverEngaged ==
    Identified =>
        \A i \in 1..Len(response.products) :
            response.products[i]._id
                \notin LikedBy(locals.user) \cup InHistory(locals.user)

(***************************************************************************)
(* C5, amended: for an identified caller whose merged result is not empty, *)
(* the response contains none of the liked listings the handler loaded     *)
(* (the first LikedLimit in store order) and none of the listings in the   *)
(* user's shared or recently viewed history.                               *)
(***************************************************************************)
C5_ScoredHasNoLoadedEngaged ==
    (Identified /\ locals.path = "scored") =>
        \A i \in 1..Len(response.products) :
            response.products[i]._id
                \notin LoadedLikes(locals.user) \cup InHistory(locals.user)

\* the user likes more listings than the handler loads, has viewed one, and
\* gets a non-empty merged result
C5_Witness ==
    /\ Identified /\ locals.path = "scored"
    /\ Cardinality(LikedBy(locals.user)) > LikedLimit
    /\ history[locals.user].recentlyViewedProducts # <<>>
    /\ Len(response.products) > 0

(***************************************************************************)
(* C6: when the merged result of an identified recommend request is empty, *)
(* the response is the default-mode result for the same keyword filter:    *)
(* the listings matching the keyword, most recent first, capped.           *)
(***************************************************************************)
C6_EmptyMergedIsDefault ==
    (Identified /\ RanScoring /\ Len(locals.merged) = 0) =>
        /\ IsDefaultResult(response.products, locals.keyword)
        /\ response.products = listProducts(locals.q, <<>>, Null)

\* every candidate of a keyword request was excluded, and the store holds a
\* listing the keyword does not match
C6_Witness ==
    /\ Identified /\ RanScoring /\ Len(locals.merged) = 0
    /\ locals.keyword # <<>>
    /\ Len(locals.candidates) > 0
    /\ Len(response.products) = Len(locals.candidates)
    /\ Matching(locals.keyword) # Range(products)

(***************************************************************************)
(* C7, as claimed: recommend answers with the default-mode result when the *)
(* caller is anonymous, when an identified caller has no history and no    *)
(* keyword, and when an identified caller has history but no candidate is  *)
(* a primary or secondary match.                                           *)
(***************************************************************************)
C7_NoTierMatchIsDefault ==
    IsRecommend =>
        /\ locals.path \in {"anonymous", "no signal"} =>
                IsDefaultResult(response.products, locals.keyword)
        /\ ( /\ RanScoring
             /\ Len(locals.primarySources) + Len(locals.secondarySources) > 0
             /\ locals.primaryMatches = <<>>
             /\ locals.secondaryMatches = <<>> )
           => IsDefaultResult(response.products, locals.keyword)

(***************************************************************************)
(* C7, amended: recommend answers with the default-mode result when the    *)
(* caller is anonymous, when an identified caller has no history and no    *)
(* keyword, and when the merged result is empty; when an identified caller *)
(* has history but no candidate is a primary or secondary match, the       *)
(* response is the fallback tier, that is the candidate pool without the   *)
(* excluded listings, in pool order, capped, unless that is empty.         *)
(***************************************************************************)
C7_DegradesToDefault ==
    IsRecommend =>
        /\ locals.path \in {"anonymous", "no signal", "no match"} =>
                IsDefaultResult(response.products, locals.keyword)
        /\ ( /\ RanScoring
             /\ Len(locals.primarySources) + Len(locals.secondarySources) > 0
             /\ locals.primaryMatches = <<>>
             /\ locals.secondaryMatches = <<>> )
           => LET rest == SelectSeq(locals.candidates,
                            LAMBDA d : d._id \notin locals.excludeIds)
              IN  IF rest = <<>>
                  THEN IsDefaultResult(response.products, locals.keyword)
                  ELSE response.products = SubSeq(rest, 1, Min(limit, Len(rest)))

\* a caller with history whose candidates match neither profile gets the pool
\* without the excluded listing, which is not the default result
C7_Witness ==
    /\ RanScoring
    /\ Len(locals.primarySources) + Len(locals.secondarySources) > 0
    /\ locals.primaryMatches = <<>>
    /\ locals.secondaryMatches = <<>>
    /\ Len(response.products) > 0
    /\ ~IsDefaultResult(response.products, locals.keyword)

(***************************************************************************)
(* C8: for an anonymous caller and any keyword, recommend returns the same *)
(* ordered list as GET / without sort or category and with the same q: the *)
(* keyword-filtered listings, most recent first, capped.                   *)
(***************************************************************************)
C8_AnonymousIsDefaultList ==
    (IsRecommend /\ locals.user = NoUser) =>
        /\ response.products = listProducts(locals.q, <<>>, Null)
        /\ IsDefaultResult(response.products, trim(locals.q))

\* an anonymous keyword request over a store with a listing the keyword does
\* not match and a user who has history
C8_Witness ==
    /\ IsRecommend /\ locals.user = NoUser
    /\ locals.q = QuerySo
    /\ Len(response.products) > 0
    /\ Matching(trim(locals.q)) # Range(products)
    /\ \E u \in Users : LikedBy(u) \cup InHistory(u) # {}

(***************************************************************************)
(* C9: an identified caller who likes nothing, has empty shared and viewed *)
(* histories and gives no keyword gets the default result (all listings,   *)
(* most recent first, capped) and no candidate pool is fetched or scored.  *)
(***************************************************************************)
C9_NoSignalIsDefault ==
    ( /\ Identified
      /\ locals.keyword = <<>>
      /\ LikedBy(locals.user) = {}
      /\ InHistory(locals.user) = {} )
    => /\ locals.path = "no signal"
       /\ "candidates" \notin DOMAIN locals
       /\ IsDefaultResult(response.products, <<>>)

\* such a caller over a store with more listings than the cap
C9_Witness ==
    /\ Identified
    /\ locals.keyword = <<>>
    /\ LikedBy(locals.user) = {}
    /\ InHistory(locals.user) = {}
    /\ Len(products) > limit
    /\ Len(response.products) = limit

(***************************************************************************)
(* C10: the popular list is ordered descending by the key                  *)
(* (popularityScore, likeCount, shareCount, createdAt), where likeCount is *)
(* the size of likedBy and popularityScore = likeCount + shareCount: of    *)
(* two returned listings the earlier one's key is not the smaller.         *)
(***************************************************************************)
PopularKey(doc) ==
    <<Len(doc.likedBy) + doc.shareCount, Len(doc.likedBy), doc.shareCount,
      doc.createdAt>>

IsPopular == locals.handler = "list" /\ locals.sort = "popular"

C10_PopularOrder ==
    IsPopular =>
        /\ \A i, j \in 1..Len(response.products) :
                i < j => ~LexGreater(PopularKey(response.products[j]),
                                     PopularKey(response.products[i]))
        /\ \A i \in 1..Len(response.products) :
                response.products[i].likeCount
                    = Len(response.products[i].likedBy)

\* two listings tie on the score; the older one with the like comes before
\* the newer one with the share
C10_Witness ==
    /\ IsPopular
    /\ Len(response.products) = 2
    /\ Len(response.products[1].likedBy) = 1
    /\ response.products[1].shareCount = 0
    /\ Len(response.products[2].likedBy) = 0
    /\ response.products[2].shareCount = 1
    /\ response.products[1].createdAt < response.products[2].createdAt

(***************************************************************************)
(* C11: every discovery response, in default, popular and recommend mode   *)
(* and on every fallback path of recommend, holds at most `limit` (200)    *)
(* listings.                                                               *)
(***************************************************************************)
IsDiscovery == locals.handler \in {"list", "recommend"}

C11_ResponseCapped ==
    IsDiscovery => Len(response.products) <= limit

\* a recommend request that scored more candidates than the cap and answered
\* with exactly the cap
C11_Witness ==
    /\ Identified /\ locals.path = "scored"
    /\ Len(locals.primaryMatches) + Len(locals.secondaryMatches)
            + Len(locals.fallbackMatches) > limit
    /\ Len(response.products) = limit

(***************************************************************************)
(* The keyword helpers on their own: a keyword set as recommend holds it   *)
(* (lower-cased, non-empty tokens), and calls of addKeywords and           *)
(* hasKeywordMatch on it with the titles a listing can carry.              *)
(***************************************************************************)
TitleNone == <<>>                       \* title absent or ""
TitleShort == <<"S", "-", "o", " ", "X">>  \* every fragment under 2 characters

KeywordTitles == { TitleNone, TitleBike, TitleBikes, TitleSofa, TitleShort }

\* tokens a keyword set starts with: title tokens and a caller's keyword
KeywordTokens == { <<"s", "o">>, <<"b", "i", "k", "e">>, <<"x">> }

KeywordInit ==
    /\ products = <<>>
    /\ history = [u \in Users |->
                    [recentlyViewedProducts |-> <<>>, sharedProducts |-> <<>>]]
    /\ nextId = 1
    /\ now = 1
    /\ response = [status |-> 0]
    /\ \E set \in SUBSET KeywordTokens :
            locals = [handler |-> "keywords", title |-> TitleNone,
                      before |-> set, set |-> set]
    /\ OthersInit

\* addKeywords(set, title) on the set held
ApplyAddKeywords(title) ==
    /\ locals' = [handler |-> "addKeywords", title |-> title,
                  before |-> locals.set,
                  set |-> addKeywords(locals.set, title)]
    /\ response' = [status |-> 0]
    /\ UNCHANGED <<products, history, nextId, now>>
    /\ UNCHANGED others

\* hasKeywordMatch(title, set) on the set held
ApplyHasKeywordMatch(title) ==
    /\ locals' = [handler |-> "hasKeywordMatch", title |-> title,
                  before |-> locals.set, set |-> locals.set]
    /\ response' = [status |-> 0,
                    result |-> hasKeywordMatch(title, locals.set)]
    /\ UNCHANGED <<products, history, nextId, now>>
    /\ UNCHANGED others

KeywordNext ==
    \/ \E title \in KeywordTitles : ApplyAddKeywords(title)
    \/ \E title \in KeywordTitles : ApplyHasKeywordMatch(title)

KeywordSpec == KeywordInit /\ [][KeywordNext]_vars

(***************************************************************************)
(* C12: hasKeywordMatch returns true exactly when the lower-cased title    *)
(* contains a member of the keyword set as a substring, and false whenever *)
(* the keyword set is empty or the title is absent or empty.               *)
(***************************************************************************)
\* needle occurs in hay at some offset
IsSubstring(needle, hay) ==
    \E from \in 1..Len(hay), to \in 1..Len(hay) :
        SubSeq(hay, from, to) = needle

C12_MatchIffSubstring ==
    locals.handler = "hasKeywordMatch" =>
        /\ response.result =
                (\E k \in locals.set :
                    IsSubstring(k, [i \in 1..Len(locals.title) |->
                                        LowerChar(locals.title[i])]))
        /\ (locals.set = {} \/ locals.title = TitleNone)
                => response.result = FALSE

\* a match found only because the title is lower-cased
C12_Witness ==
    /\ locals.handler = "hasKeywordMatch"
    /\ locals.title = TitleSofa
    /\ locals.set = { <<"s", "o">> }
    /\ response.result = TRUE

(***************************************************************************)
(* C13: addKeywords is idempotent, a second call with the same title on    *)
(* the set the first call left changes nothing, and no call removes a      *)
(* token the set already held.                                             *)
(***************************************************************************)
C13_IdempotentAndMonotone ==
    [][locals'.handler = "addKeywords" =>
        /\ locals.set \subseteq locals'.set
        /\ (locals.handler = "addKeywords" /\ locals'.title = locals.title)
                => locals'.set = locals.set]_vars

\* the second of two calls with one title, whose first call added tokens
\* to a set that was not empty
C13_Witness ==
    /\ locals.handler = "addKeywords"
    /\ locals.title = TitleBikes
    /\ locals.before = locals.set
    /\ <<"b", "i", "k", "e", "s">> \in locals.set
    /\ <<"s", "o">> \in locals.set

(***************************************************************************)
(* Recommend with a one-character search text among the q values, over a   *)
(* store of at most MaxProfileProducts listings.                           *)
(***************************************************************************)
MaxProfileProducts == 2

QueryS == <<"S">>

ProfileQueries == Queries \cup { QueryS }

ProfileNext ==
    \/ \E user \in Users, body \in Bodies :
            nextId <= MaxProfileProducts /\ CreateProduct(user, body)
    \/ \E user \in Users, id \in 1..MaxProfileProducts : ToggleLike(user, id)
    \/ \E user \in Users, id \in 1..MaxProfileProducts : GetProduct(user, id)
    \/ \E user \in Callers, q \in ProfileQueries : Recommend(user, q)

ProfileSpec == Init /\ [][ProfileNext]_vars

ProfileKeywords == locals.primaryKeywords \cup locals.secondaryKeywords

IsLowerCased(k) == \A i \in 1..Len(k) : k[i] \notin {"B", "S", "X"}

(***************************************************************************)
(* C14 as stated: every keyword token of the primary and the secondary     *)
(* profile, the caller's keyword included, is lower-cased and at least 2   *)
(* characters long.                                                        *)
(***************************************************************************)
C14_TokensLowerAtLeastTwo ==
    RanScoring => \A k \in ProfileKeywords : IsLowerCased(k) /\ Len(k) >= 2

(***************************************************************************)
(* C14 amended: every keyword token of the two profiles is lower-cased;    *)
(* every token other than the caller's lower-cased keyword is at least 2   *)
(* characters long, and the caller's keyword is in both profiles whatever  *)
(* its length, provided it is not empty.                                   *)
(***************************************************************************)
C14_TitleTokensAtLeastTwo ==
    RanScoring =>
        /\ \A k \in ProfileKeywords :
                /\ IsLowerCased(k)
                /\ Len(k) >= 2 \/ (k # <<>> /\ k = toLowerCase(locals.keyword))
        /\ locals.keyword # <<>> =>
                toLowerCase(locals.keyword) \in
                    locals.primaryKeywords \cap locals.secondaryKeywords

\* a one-character keyword next to a token taken from a liked listing's title
C14_Witness ==
    /\ RanScoring
    /\ locals.keyword = QueryS
    /\ <<"s">> \in locals.primaryKeywords
    /\ \E k \in locals.primaryKeywords : Len(k) >= 2

(***************************************************************************)
(* C15: discovery is read-only: a recommend, default or popular request    *)
(* leaves every listing (likedBy and shareCount included) and every user's *)
(* shared and recently-viewed history as they were, on every path.         *)
(***************************************************************************)
C15_DiscoveryReadOnly ==
    [][IsDiscovery' => UNCHANGED <<products, history>>]_vars

\* a discovery request answered over listings that are liked and shared and
\* a user with history
C15_Witness ==
    /\ IsDiscovery
    /\ \E i \in 1..Len(products) :
            products[i].likedBy # <<>> /\ products[i].shareCount > 0
    /\ \E u \in Users :
            /\ history[u].sharedProducts # <<>>
            /\ history[u].recentlyViewedProducts # <<>>

(***************************************************************************)
(* Views and shares without a bound on the history a user collects.        *)
(***************************************************************************)
HistoryNext ==
    \/ \E user \in Users, body \in Bodies : CreateProduct(user, body)
    \/ \E user \in Users, id \in ProductIds : ShareProduct(user, id)
    \/ \E user \in Callers, id \in ProductIds : GetProduct(user, id)

HistorySpec == Init /\ [][HistoryNext]_vars

\* the first n entries of seq
FirstN(seq, n) ==
    [i \in 1..(IF Len(seq) < n THEN Len(seq) ELSE n) |-> seq[i]]

\* the history is the listing put before the previous history, cut to the cap
IsPushedFront(after, id, previous) ==
    /\ after = FirstN(<<id>> \o previous, HISTORY_LIMIT)
    /\ Len(after) <= HISTORY_LIMIT
    /\ after[1] = id

(***************************************************************************)
(* C16: after an identified user views a listing (GET /:id) or shares one  *)
(* (POST /:id/share), the recently-viewed, respectively shared, history is *)
(* the first HISTORY_LIMIT entries of the listing's id put before the      *)
(* previous history: at most HISTORY_LIMIT entries, the head the listing   *)
(* just acted upon, the oldest entry evicted on overflow.                  *)
(***************************************************************************)
C16_HistoryPushedFront ==
    [][\A user \in Users, id \in ProductIds :
        /\ (GetProduct(user, id) /\ exists(id)) =>
                IsPushedFront(history'[user].recentlyViewedProducts, id,
                              history[user].recentlyViewedProducts)
        /\ (ShareProduct(user, id) /\ exists(id)) =>
                IsPushedFront(history'[user].sharedProducts, id,
                              history[user].sharedProducts)]_vars

\* more listings shared than the cap holds, the last two kept in order, and
\* a full viewed history whose two entries differ
C16_Witness ==
    /\ Len(products) > HISTORY_LIMIT
    /\ \A i \in 1..Len(products) : products[i].shareCount = 1
    /\ \E u \in Users :
            /\ Len(history[u].sharedProducts) = HISTORY_LIMIT
            /\ history[u].sharedProducts[1] # history[u].sharedProducts[2]
            /\ Len(history[u].recentlyViewedProducts) = HISTORY_LIMIT
            /\ history[u].recentlyViewedProducts[1]
                    # history[u].recentlyViewedProducts[2]

(***************************************************************************)
(* POST /api/products/:id/like as the two steps the handler takes around   *)
(* its awaits: findById, then save.  Mongoose saves the difference to the  *)
(* loaded document: likedBy.push becomes a $push, which increments the     *)
(* version key __v without testing it; set('likedBy', ...) becomes a $set  *)
(* of the array, which updates only where __v is still the loaded one and  *)
(* throws VersionError otherwise.                                          *)
(***************************************************************************)
MaxToggles == 3     \* __v up to which a like request loads the listing

Requests == {"r1", "r2"}    \* requests in flight at the same time

Idle == [pc |-> "idle"]

\* a listing as POST /api/products leaves it, with the version key Mongoose
\* adds
created(id, body) ==
    [_id |-> id,
     seller |-> "u1",
     title |-> trim(body.title),
     category |-> body.category,
     images |-> imagesOf(body),
     status |-> "selling",
     likedBy |-> <<>>,
     shareCount |-> 0,
     soldAt |-> NoDate,
     createdAt |-> id,
     __v |-> 0]

\* two listings stored and no request in flight
RequestsInit ==
    /\ products = << created(1, [title |-> TitleBike, category |-> CatA]),
                     created(2, [title |-> TitleSofa, category |-> CatA]) >>
    /\ history = [u \in Users |->
                    [recentlyViewedProducts |-> <<>>, sharedProducts |-> <<>>]]
    /\ nextId = 3
    /\ now = 3
    /\ response = [status |-> 0]
    /\ locals = [r \in Requests |-> Idle]
    /\ OthersInit

\* readUserFromReq and Product.findById
LikeFind(r, user, id) ==
    /\ locals[r].pc = "idle"
    /\ IF user = NoUser
       THEN /\ response' = [status |-> 401]
            /\ UNCHANGED locals
       ELSE IF ~exists(id)
       THEN /\ response' = [status |-> 404]
            /\ UNCHANGED locals
       ELSE /\ findById(id).__v < MaxToggles
            /\ locals' = [locals EXCEPT ![r] =
                            [pc |-> "found", user |-> user,
                             item |-> findById(id)]]
            /\ UNCHANGED response
    /\ UNCHANGED <<products, history, nextId, now>>
    /\ UNCHANGED others

\* the change of likedBy and item.save()
LikeSave(r) ==
    /\ locals[r].pc = "found"
    /\ LET item == locals[r].item
           user == locals[r].user
           likedBy == item.likedBy
           isLiked == \E i \in 1..Len(likedBy) : likedBy[i] = user
           stored == findById(item._id)
       IN  IF isLiked
           THEN IF stored.__v = item.__v
                THEN /\ products' = saved(
                            [stored EXCEPT
                                !.likedBy =
                                    SelectSeq(likedBy, LAMBDA x : x # user),
                                !.__v = @ + 1])
                     /\ response' = [status |-> 200]
                ELSE /\ response' = [status |-> 500]
                     /\ UNCHANGED products
           ELSE /\ products' = saved(
                        [stored EXCEPT !.likedBy = Append(@, user),
                                       !.__v = @ + 1])
                /\ response' = [status |-> 200]
    /\ locals' = [locals EXCEPT ![r] = Idle]
    /\ UNCHANGED <<history, nextId, now>>
    /\ UNCHANGED others

LikeNext ==
    \/ \E r \in Requests, user \in Callers, id \in ProductIds :
            LikeFind(r, user, id)
    \/ \E r \in Requests : LikeSave(r)

LikeSpec == RequestsInit /\ [][LikeNext]_vars

(***************************************************************************)
(* C17: in every reachable state a listing's likedBy holds each user at    *)
(* most once, whatever the order and interleaving of like requests, two    *)
(* requests of one user on one listing in flight together included.        *)
(***************************************************************************)
C17_LikedByHoldsUserOnce ==
    \A i \in 1..Len(products) : \A u \in Users :
        Occurrences(products[i].likedBy, u) <= 1

(***************************************************************************)
(* PATCH /api/products/:id                                                 *)
(***************************************************************************)
\* bodies the zod schema accepts; a key the request leaves out is not in
\* the DOMAIN
PatchBodies ==
    { [status |-> "sold"], [status |-> "reserved"], [title |-> TitleBikes] }

\* Object.assign(item, parsed.data), title through the schema's trim setter
assign(item, body) ==
    [k \in DOMAIN item |->
        IF k \in DOMAIN body
        THEN IF k = "title" THEN trim(body[k]) ELSE body[k]
        ELSE item[k]]

\* Product.findByIdAndDelete(id)
findByIdAndDelete(id) == SelectSeq(products, LAMBDA d : d._id # id)

\* Body.safeParse(req.body).success, for the keys the model sends
safeParse(body) ==
    /\ "status" \in DOMAIN body => body.status \in {"selling", "reserved", "sold"}
    /\ "title" \in DOMAIN body => Len(body.title) >= 1

\* a body the schema rejects: status outside the enum
InvalidPatchBodies == { [status |-> "deleted"] }

\* PATCH /:id storing status sold instead of deleting the listing
PatchProduct_storesSold(user, id, body) ==
    /\ IF user = NoUser
       THEN /\ response' = [status |-> 401]
            /\ UNCHANGED <<products, files>>
       ELSE IF ~safeParse(body)
       THEN /\ response' = [status |-> 400]
            /\ UNCHANGED <<products, files>>
       ELSE IF ~exists(id)
       THEN /\ response' = [status |-> 404]
            /\ UNCHANGED <<products, files>>
       ELSE LET item == findById(id)
            IN  IF item.seller # user
                THEN /\ response' = [status |-> 403]
                     /\ UNCHANGED <<products, files>>
                ELSE IF FALSE
                THEN /\ files' \in deleteProductImages(Range(item.images))
                     /\ products' = findByIdAndDelete(id)
                     /\ response' = [status |-> 200, deleted |-> TRUE]
                ELSE /\ products' = saved(assign(item, body))
                     /\ response' = [status |-> 200, deleted |-> FALSE]
                     /\ UNCHANGED files
    /\ UNCHANGED <<history, nextId, now, locals>>
    /\ UNCHANGED <<users, codes, verified, rooms, reviews>>

\* PATCH /:id without the seller test
PatchProduct_noSellerCheck(user, id, body) ==
    /\ IF user = NoUser
       THEN /\ response' = [status |-> 401]
            /\ UNCHANGED <<products, files>>
       ELSE IF ~safeParse(body)
       THEN /\ response' = [status |-> 400]
            /\ UNCHANGED <<products, files>>
       ELSE IF ~exists(id)
       THEN /\ response' = [status |-> 404]
            /\ UNCHANGED <<products, files>>
       ELSE LET item == findById(id)
            IN  IF FALSE
                THEN /\ response' = [status |-> 403]
                     /\ UNCHANGED <<products, files>>
                ELSE IF /\ "status" \in DOMAIN body
                        /\ body.status = "sold"
                        /\ item.status # "sold"
                THEN /\ files' \in deleteProductImages(Range(item.images))
                     /\ products' = findByIdAndDelete(id)
                     /\ response' = [status |-> 200, deleted |-> TRUE]
                ELSE /\ products' = saved(assign(item, body))
                     /\ response' = [status |-> 200, deleted |-> FALSE]
                     /\ UNCHANGED files
    /\ UNCHANGED <<history, nextId, now, locals>>
    /\ UNCHANGED <<users, codes, verified, rooms, reviews>>

\* PATCH /api/products/:id
PatchProduct(user, id, body) ==
    /\ IF user = NoUser
       THEN /\ response' = [status |-> 401]
            /\ UNCHANGED <<products, files>>
       ELSE IF ~safeParse(body)
       THEN /\ response' = [status |-> 400]
            /\ UNCHANGED <<products, files>>
       ELSE IF ~exists(id)
       THEN /\ response' = [status |-> 404]
            /\ UNCHANGED <<products, files>>
       ELSE LET item == findById(id)
            IN  IF item.seller # user
                THEN /\ response' = [status |-> 403]
                     /\ UNCHANGED <<products, files>>
                ELSE IF /\ "status" \in DOMAIN body
                        /\ body.status = "sold"
                        /\ item.status # "sold"
                THEN /\ files' \in deleteProductImages(Range(item.images))
                     /\ products' = findByIdAndDelete(id)
                     /\ response' = [status |-> 200, deleted |-> TRUE]
                ELSE /\ products' = saved(assign(item, body))
                     /\ response' = [status |-> 200, deleted |-> FALSE]
                     /\ UNCHANGED files
    /\ UNCHANGED <<history, nextId, now, locals>>
    /\ UNCHANGED <<users, codes, verified, rooms, reviews>>

\* DELETE /api/products/:id
DeleteProduct(user, id) ==
    /\ IF user = NoUser
       THEN /\ response' = [status |-> 401]
            /\ UNCHANGED <<products, files>>
       ELSE IF ~exists(id)
       THEN /\ response' = [status |-> 404]
            /\ UNCHANGED <<products, files>>
       ELSE LET item == findById(id)
            IN  IF item.seller # user
                THEN /\ response' = [status |-> 403]
                     /\ UNCHANGED <<products, files>>
                ELSE /\ files' \in deleteProductImages(Range(item.images))
                     /\ products' = findByIdAndDelete(id)
                     /\ response' = [status |-> 200]
    /\ UNCHANGED <<history, nextId, now, locals>>
    /\ UNCHANGED <<users, codes, verified, rooms, reviews>>

(***************************************************************************)
(* POST /api/products/:id/share as the two steps the handler takes around  *)
(* its awaits: findById, then the assignment of the loaded shareCount + 1  *)
(* and save, which Mongoose sends as a $set of shareCount with no test of  *)
(* the version key; save throws when the listing is gone.                  *)
(***************************************************************************)
MaxShareReads == 2  \* shareCount up to which a share request loads the listing

\* of the loaded document a request keeps what its save goes on to use: the
\* _id and the shareCount

ShareFind(r, user, id) ==
    /\ locals[r].pc = "idle"
    /\ IF ~exists(id)
       THEN /\ response' = [status |-> 404]
            /\ UNCHANGED locals
       ELSE /\ findById(id).shareCount < MaxShareReads
            /\ locals' = [locals EXCEPT ![r] =
                            [pc |-> "found", user |-> user,
                             item |-> [_id |-> id,
                                       shareCount |->
                                            findById(id).shareCount]]]
            /\ UNCHANGED response
    /\ UNCHANGED <<products, history, nextId, now>>
    /\ UNCHANGED others

ShareSave(r) ==
    /\ locals[r].pc = "found"
    /\ LET item == locals[r].item
           user == locals[r].user
       IN  IF ~exists(item._id)
           THEN /\ response' = [status |-> 500]
                /\ UNCHANGED <<products, history>>
           ELSE /\ products' = saved(
                        [findById(item._id) EXCEPT
                            !.shareCount = item.shareCount + 1])
                /\ history' =
                        IF user # NoUser
                        THEN [history EXCEPT ![user].sharedProducts =
                                pushFront(@, item._id)]
                        ELSE history
                /\ response' = [status |-> 200]
    /\ locals' = [locals EXCEPT ![r] = Idle]
    /\ UNCHANGED <<nextId, now>>
    /\ UNCHANGED others

ShareNext ==
    \/ \E r \in Requests, user \in Users, id \in ProductIds :
            ShareFind(r, user, id)
    \/ \E r \in Requests : ShareSave(r)
    \/ \E user \in Users, id \in ProductIds, body \in PatchBodies :
            PatchProduct(user, id, body)

ShareSpec == RequestsInit /\ [][ShareNext]_vars

(***************************************************************************)
(* C18: a listing's stored shareCount never decreases from one state to    *)
(* the next, whatever the interleaving of share requests and edits.        *)
(***************************************************************************)
C18_ShareCountNeverDecreases ==
    [][\A i \in 1..Len(products), j \in 1..Len(products') :
        products'[j]._id = products[i]._id =>
            products'[j].shareCount >= products[i].shareCount]_vars

(***************************************************************************)
(* Listings created and edited by their owner.                             *)
(***************************************************************************)
PatchNext ==
    \/ \E user \in Callers, body \in Bodies : CreateProduct(user, body)
    \/ \E user \in Callers, id \in ProductIds, body \in PatchBodies :
            PatchProduct(user, id, body)

PatchSpec == Init /\ [][PatchNext]_vars

(***************************************************************************)
(* C19: when the owner changes a listing's status to sold through PATCH,   *)
(* the listing stays in the store with status sold and soldAt set to the   *)
(* current time.                                                           *)
(***************************************************************************)
C19_SoldRecordsSoldAt ==
    [][\A id \in ProductIds :
        (/\ exists(id)
         /\ findById(id).status # "sold"
         /\ PatchProduct(findById(id).seller, id, [status |-> "sold"]))
        => \E j \in 1..Len(products') :
                /\ products'[j]._id = id
                /\ products'[j].status = "sold"
                /\ products'[j].soldAt = now]_vars

(***************************************************************************)
(* The cleanup scheduler (productScheduler.ts).  startProductScheduler     *)
(* runs cleanupSoldProducts at once and then from setInterval, for as long *)
(* as the process lives: the run is an action that can be taken at any     *)
(* time and is taken again and again (weak fairness).  The store the       *)
(* scheduler finds holds documents as the schema allows them, sold ones    *)
(* with and without soldAt included.                                       *)
(***************************************************************************)
ONE_HOUR == 2       \* 60 * 60 * 1000 ms, in ticks of the model's clock
StartTime == 3      \* the clock when the scheduler starts
MaxNow == 6         \* the clock stops here

SoldAtValues == { NoDate, 1, 3 }

stored(id, status, soldAt) ==
    [created(id, [title |-> TitleBike, category |-> CatA]) EXCEPT
        !.status = status, !.soldAt = soldAt]

SchedulerInit ==
    /\ \E s1, s2 \in {"selling", "sold"}, t1, t2 \in SoldAtValues :
            products = << stored(1, s1, t1), stored(2, s2, t2) >>
    /\ history = [u \in Users |->
                    [recentlyViewedProducts |-> <<>>, sharedProducts |-> <<>>]]
    /\ nextId = 3
    /\ now = StartTime
    /\ response = [status |-> 0]
    /\ locals = NoLocals
    /\ OthersInit

\* time passes
Tick ==
    /\ now < MaxNow
    /\ now' = now + 1
    /\ UNCHANGED <<products, history, nextId, response, locals>>
    /\ UNCHANGED others

\* cleanupSoldProducts without the status test
cleanupSoldProducts_anyStatus ==
    LET oneHourAgo == now - ONE_HOUR
        soldProducts ==
            SelectSeq(products, LAMBDA d :
                d.soldAt # NoDate /\ d.soldAt <= oneHourAgo)
    IN  /\ products' = SelectSeq(products, LAMBDA d :
                            \A i \in 1..Len(soldProducts) :
                                soldProducts[i]._id # d._id)
        /\ files' \in deleteProductImages(
                        UNION { Range(soldProducts[i].images) :
                                    i \in 1..Len(soldProducts) })
        /\ UNCHANGED <<history, nextId, now, response, locals>>
        /\ UNCHANGED <<users, codes, verified, rooms, reviews>>

\* find { status: "sold", soldAt: { $lte: oneHourAgo, $ne: null } } and
\* findByIdAndDelete of each document found; a failed unlink of an image is
\* caught and does not stop the loop
cleanupSoldProducts ==
    LET oneHourAgo == now - ONE_HOUR
        soldProducts ==
            SelectSeq(products, LAMBDA d :
                /\ d.status = "sold"
                /\ d.soldAt # NoDate
                /\ d.soldAt <= oneHourAgo)
    IN  /\ products' = SelectSeq(products, LAMBDA d :
                            \A i \in 1..Len(soldProducts) :
                                soldProducts[i]._id # d._id)
        /\ files' \in deleteProductImages(
                        UNION { Range(soldProducts[i].images) :
                                    i \in 1..Len(soldProducts) })
        /\ UNCHANGED <<history, nextId, now, response, locals>>
        /\ UNCHANGED <<users, codes, verified, rooms, reviews>>

SchedulerNext ==
    \/ Tick
    \/ cleanupSoldProducts

SchedulerSpec ==
    SchedulerInit /\ [][SchedulerNext]_vars /\ WF_vars(cleanupSoldProducts)

\* the listing is stored, sold, and its soldAt is a time at least one hour ago
IsDue(id) ==
    /\ exists(id)
    /\ findById(id).status = "sold"
    /\ findById(id).soldAt # NoDate
    /\ now - findById(id).soldAt >= ONE_HOUR

(***************************************************************************)
(* C20: every listing with status sold whose soldAt is set and at least    *)
(* one hour in the past is eventually deleted, given that the scheduler    *)
(* keeps running; and a step that removes a listing removes only such      *)
(* listings.                                                               *)
(***************************************************************************)
C20_DueDeletedOnlyDue ==
    /\ \A id \in ProductIds : IsDue(id) ~> ~exists(id)
    /\ [][\A id \in ProductIds :
            (exists(id) /\ \A j \in 1..Len(products') : products'[j]._id # id)
                => IsDue(id)]_vars

\* a run has deleted one listing and left one that is sold for less than an
\* hour
C20_Witness ==
    /\ Len(products) = 1
    /\ products[1].status = "sold"
    /\ products[1].soldAt # NoDate
    /\ now - products[1].soldAt < ONE_HOUR

(***************************************************************************)
(* Listings with images: owner's DELETE, PATCH and the scheduler over a    *)
(* store whose listings have an uploaded and an external image, each file  *)
(* on disk or not.                                                         *)
(***************************************************************************)
UploadA == <<"/uploads/", "a.png">>
UploadC == <<"/uploads/", "c.png">>
ExternalB == <<"https://", "cdn/b.png">>

\* authenticated callers who sell nothing
Strangers == {"u2"}

ImagesInit ==
    /\ \E t \in {1, 3} :
            products =
                << [stored(1, "selling", NoDate) EXCEPT
                        !.images = <<UploadA, ExternalB>>],
                   [stored(2, "sold", t) EXCEPT !.images = <<UploadC>>] >>
    /\ history = [u \in Users |->
                    [recentlyViewedProducts |-> <<>>, sharedProducts |-> <<>>]]
    /\ nextId = 3
    /\ now = StartTime
    /\ response = [status |-> 0]
    /\ locals = NoLocals
    /\ users = <<>>
    /\ codes = {}
    /\ verified = {}
    /\ rooms = <<>>
    /\ reviews = <<>>
    /\ files \in SUBSET {UploadA, UploadC, ExternalB}

ImagesNext ==
    \/ \E user \in Callers \cup Strangers, id \in ProductIds :
            DeleteProduct(user, id)
    \/ \E user \in Callers \cup Strangers, id \in ProductIds,
          body \in PatchBodies \cup InvalidPatchBodies :
            PatchProduct(user, id, body)
    \/ cleanupSoldProducts

ImagesSpec == ImagesInit /\ [][ImagesNext]_vars

\* the listing is not in the store after the step
deleted(id) == \A j \in 1..Len(products') : products'[j]._id # id

C29_NotSellerAlways403 ==
    [][\A id \in ProductIds, user \in Users \cup Strangers :
            (exists(id) /\ findById(id).seller # user) =>
                /\ DeleteProduct(user, id) => response'.status = 403
                /\ \A body \in PatchBodies \cup InvalidPatchBodies :
                        PatchProduct(user, id, body) => response'.status = 403]_vars

(***************************************************************************)
(* C29: a PATCH or DELETE by an unauthenticated caller answers 401; by an  *)
(* authenticated caller who is not the seller of the listing it answers    *)
(* 403, except a PATCH whose body fails validation, which answers 400; in  *)
(* all these cases the listings and the image files are unchanged.         *)
(***************************************************************************)
C29_OnlySellerModifies ==
    [][\A id \in ProductIds :
        /\ DeleteProduct(NoUser, id) =>
                (response'.status = 401 /\ UNCHANGED <<products, files>>)
        /\ \A body \in PatchBodies \cup InvalidPatchBodies :
                PatchProduct(NoUser, id, body) =>
                    (response'.status = 401 /\ UNCHANGED <<products, files>>)
        /\ \A user \in Users \cup Strangers :
            (exists(id) /\ findById(id).seller # user) =>
                /\ DeleteProduct(user, id) =>
                        (response'.status = 403 /\ UNCHANGED <<products, files>>)
                /\ \A body \in PatchBodies \cup InvalidPatchBodies :
                        PatchProduct(user, id, body) =>
                            /\ response'.status = IF safeParse(body) THEN 403 ELSE 400
                            /\ UNCHANGED <<products, files>>]_vars

\* a caller who is not the seller was answered 403 while both listings and
\* all three files are still there
C29_Witness ==
    /\ response.status = 403
    /\ Len(products) = 2
    /\ files = {UploadA, UploadC, ExternalB}

(***************************************************************************)
(* The writing handlers of the products router: create, PATCH and DELETE.  *)
(***************************************************************************)
WritersNext ==
    \/ \E user \in Callers, body \in Bodies : CreateProduct(user, body)
    \/ \E user \in Callers, id \in ProductIds,
          body \in PatchBodies \cup InvalidPatchBodies :
            PatchProduct(user, id, body)
    \/ \E user \in Callers, id \in ProductIds : DeleteProduct(user, id)

WritersSpec == Init /\ [][WritersNext]_vars

NonExcluded ==
    SelectSeq(locals.candidates, LAMBDA d : d._id \notin locals.excludeIds)

\* an identified recommend request with a keyword (none of the model's
\* keywords holds a regex metacharacter)
KeywordRequest == Identified /\ locals.keyword # <<>>

(***************************************************************************)
(* C23 as stated: in an identified recommend request with a keyword every  *)
(* candidate that is not excluded is a primary match, the secondary and    *)
(* fallback tiers are empty, and the response is the candidate pool        *)
(* without the excluded listings, capped at the result limit.              *)
(***************************************************************************)
C23_KeywordPoolMinusExcluded ==
    KeywordRequest =>
        /\ locals.primaryMatches = NonExcluded
        /\ locals.secondaryMatches = <<>>
        /\ locals.fallbackMatches = <<>>
        /\ response.products = Take(NonExcluded, limit)

(***************************************************************************)
(* C23: in an identified recommend request with a keyword every candidate  *)
(* that is not excluded is a primary match and the secondary and fallback  *)
(* tiers are empty; when some candidate is not excluded the response is    *)
(* the candidate pool without the excluded listings, capped at the result  *)
(* limit, and when every candidate is excluded (or there is none) it is    *)
(* the default-mode result for the keyword, excluded listings included.    *)
(***************************************************************************)
C23_KeywordAllPrimary ==
    KeywordRequest =>
        /\ locals.primaryMatches = NonExcluded
        /\ locals.secondaryMatches = <<>>
        /\ locals.fallbackMatches = <<>>
        /\ NonExcluded # <<>> => response.products = Take(NonExcluded, limit)
        /\ NonExcluded = <<>> =>
                IsDefaultResult(response.products, locals.keyword)

\* a keyword request of a user with history found one excluded candidate
\* and one that is not, and the one that is not is the response
C23_Witness ==
    /\ KeywordRequest
    /\ locals.path = "scored"
    /\ Len(locals.candidates) = 2
    /\ Len(NonExcluded) = 1
    /\ response.products = NonExcluded

(***************************************************************************)
(* The auth router: e-mail codes, signup, user info and the shop.          *)
(*                                                                         *)
(* codes is the EmailCode collection, a set of documents with at most one  *)
(* per e-mail; users is the User collection in insertion order; verified   *)
(* is a history variable, the e-mails for which verify-code has succeeded. *)
(***************************************************************************)
CODE_TTL == 2        \* 10 * 60 * 1000 ms, in ticks of the model's clock
AttemptLimit == 5    \* doc.attempts >= 5

EmailA == "a@regrow.io"
EmailB == "b@regrow.io"
Emails == {EmailA, EmailB}

\* what Math.random() can produce, as 6-digit strings
Codes == {"111111", "222222"}

UserIdBob == <<"b", "o", "b">>
Password == "pass"

\* the _id of the n-th user created
UserKey == <<"u1", "u2", "u3">>

hasCode(email) == \E d \in codes : d.email = email

\* EmailCode.findOne({ email })
codeOf(email) == CHOOSE d \in codes : d.email = email

\* EmailCode.findOneAndUpdate({ email }, { code, expiresAt, attempts: 0 },
\* { upsert: true })
upsertCode(email, code) ==
    { d \in codes : d.email # email }
        \cup {[email |-> email, code |-> code,
               expiresAt |-> now + CODE_TTL, attempts |-> 0]}

hasUser(filter) ==
    \E i \in 1..Len(users) : \A k \in DOMAIN filter : users[i][k] = filter[k]

\* User.findOne(filter): the position of the first match
userIndex(filter) ==
    CHOOSE i \in 1..Len(users) :
        /\ \A k \in DOMAIN filter : users[i][k] = filter[k]
        /\ \A j \in 1..(i - 1) : \E k \in DOMAIN filter : users[j][k] # filter[k]

\* bcrypt.hash(password, 10)
hash(password) == <<"bcrypt", password>>

\* the document User.create stores: the given fields and the schema defaults
newUser(id, userId, email, password) ==
    [_id |-> id,
     userId |-> userId,
     passwordHash |-> hash(password),
     email |-> email,
     emailVerified |-> TRUE,
     gameCoins |-> 200,
     gameLevel |-> 1,
     gameProgressPct |-> 0,
     gameLevelUpRewardPending |-> FALSE,
     gameWaterCans |-> 3,
     gameFertilizers |-> 2,
     gameGrowthBoosters |-> 0]

\* the tests on the stored code with the code compared before the attempts
codeCheck_matchFirst(email, code) ==
    IF ~hasCode(email) THEN "missing"
    ELSE IF codeOf(email).expiresAt < now THEN "expired"
    ELSE IF codeOf(email).code = code THEN "match"
    ELSE IF codeOf(email).attempts >= AttemptLimit THEN "locked"
    ELSE "wrong"

\* the tests verify-code, find-id/verify and find-password/reset make on
\* the stored code, in the handlers' order
codeCheck(email, code) ==
    IF ~hasCode(email) THEN "missing"
    ELSE IF codeOf(email).expiresAt < now THEN "expired"
    ELSE IF codeOf(email).attempts >= AttemptLimit THEN "locked"
    ELSE IF codeOf(email).code # code THEN "wrong"
    ELSE "match"

\* what the three handlers do when the tests do not end in a match
rejectCode(email, outcome) ==
    /\ codes' =
        IF outcome = "expired" THEN codes \ {codeOf(email)}
        ELSE IF outcome = "wrong"
        THEN (codes \ {codeOf(email)})
                \cup {[codeOf(email) EXCEPT !.attempts = @ + 1]}
        ELSE codes
    /\ response' = [status |-> IF outcome = "locked" THEN 429 ELSE 400]

\* POST /api/auth/send-code; the mail is sent or sendMail returns false
SendCode(email) ==
    /\ \E code \in Codes : codes' = upsertCode(email, code)
    /\ \E ok \in BOOLEAN : response' = [status |-> IF ok THEN 200 ELSE 500]
    /\ UNCHANGED <<products, history, nextId, now, locals>>
    /\ UNCHANGED <<users, verified, rooms, reviews, files>>

\* POST /api/auth/find-id/send-code and POST /api/auth/find-password/send-code
RecoverySendCode(email) ==
    /\ IF ~hasUser([email |-> email])
       THEN /\ response' = [status |-> 404]
            /\ UNCHANGED codes
       ELSE /\ \E code \in Codes : codes' = upsertCode(email, code)
            /\ \E ok \in BOOLEAN :
                    response' = [status |-> IF ok THEN 200 ELSE 500]
    /\ UNCHANGED <<products, history, nextId, now, locals>>
    /\ UNCHANGED <<users, verified, rooms, reviews, files>>

\* POST /api/auth/verify-code
VerifyCode(email, code) ==
    /\ LET outcome == codeCheck(email, code)
       IN  IF outcome # "match"
           THEN /\ rejectCode(email, outcome)
                /\ UNCHANGED verified
           ELSE /\ codes' = { d \in codes : d.email # email }
                /\ verified' = verified \cup {email}
                /\ response' = [status |-> 200, verified |-> TRUE]
    /\ UNCHANGED <<products, history, nextId, now, locals>>
    /\ UNCHANGED <<users, rooms, reviews, files>>

\* POST /api/auth/find-id/verify
FindIdVerify(email, code) ==
    /\ LET outcome == codeCheck(email, code)
       IN  IF outcome # "match"
           THEN rejectCode(email, outcome)
           ELSE IF ~hasUser([email |-> email])
           THEN /\ response' = [status |-> 404]
                /\ UNCHANGED codes
           ELSE /\ codes' = { d \in codes : d.email # email }
                /\ response' =
                        [status |-> 200,
                         userId |-> users[userIndex([email |-> email])].userId]
    /\ UNCHANGED <<products, history, nextId, now, locals>>
    /\ UNCHANGED <<users, verified, rooms, reviews, files>>

\* POST /api/auth/find-password/reset
FindPasswordReset(email, code, newPassword) ==
    /\ LET outcome == codeCheck(email, code)
       IN  IF outcome # "match"
           THEN /\ rejectCode(email, outcome)
                /\ UNCHANGED users
           ELSE IF ~hasUser([email |-> email])
           THEN /\ response' = [status |-> 404]
                /\ UNCHANGED <<codes, users>>
           ELSE /\ users' =
                    [users EXCEPT ![userIndex([email |-> email])].passwordHash =
                                        hash(newPassword)]
                /\ codes' = { d \in codes : d.email # email }
                /\ response' = [status |-> 200]
    /\ UNCHANGED <<products, history, nextId, now, locals>>
    /\ UNCHANGED <<verified, rooms, reviews, files>>

\* the signup loop: the first of userId, userId1, userId11, ... that no
\* user has, or Null after maxAttempts = 100 probes
RECURSIVE probeUserId(_, _)
probeUserId(finalUserId, attempts) ==
    IF attempts >= 100 THEN Null
    ELSE IF ~hasUser([userId |-> finalUserId]) THEN finalUserId
    ELSE probeUserId(Append(finalUserId, "1"), attempts + 1)

\* POST /api/auth/signup
Signup(userId, password, email) ==
    /\ IF Len(userId) < 3 \/ trim(userId) = <<>>
       THEN /\ response' = [status |-> 400]
            /\ UNCHANGED users
       ELSE IF hasUser([email |-> email])
       THEN /\ response' = [status |-> 409]
            /\ UNCHANGED users
       ELSE LET finalUserId == probeUserId(trim(userId), 0)
            IN  IF finalUserId = Null
                THEN /\ response' = [status |-> 409]
                     /\ UNCHANGED users
                ELSE /\ users' =
                        Append(users, newUser(UserKey[Len(users) + 1], finalUserId,
                                              email, password))
                     /\ response' =
                            [status |-> 200, userId |-> finalUserId,
                             email |-> email]
    /\ UNCHANGED <<products, history, nextId, now, locals>>
    /\ UNCHANGED <<codes, verified, rooms, reviews, files>>

AuthInit ==
    /\ products = <<>>
    /\ history = [u \in Users |->
                    [recentlyViewedProducts |-> <<>>, sharedProducts |-> <<>>]]
    /\ nextId = 1
    /\ now = 1
    /\ response = [status |-> 0]
    /\ locals = NoLocals
    /\ OthersInit

\* the auth requests of a run, for two e-mail addresses and a frozen clock
AuthNext ==
    \/ \E email \in Emails : SendCode(email)
    \/ \E email \in Emails : RecoverySendCode(email)
    \/ \E email \in Emails, code \in Codes : VerifyCode(email, code)
    \/ \E email \in Emails, code \in Codes : FindIdVerify(email, code)
    \/ \E email \in Emails, code \in Codes :
            FindPasswordReset(email, code, Password)
    \/ \E email \in Emails : Signup(UserIdBob, Password, email)

AuthSpec == AuthInit /\ [][AuthNext]_vars

(***************************************************************************)
(* C24: every user record that signup created, with emailVerified = true,  *)
(* belongs to an e-mail for which a verify-code request succeeded earlier  *)
(* in the run.                                                             *)
(***************************************************************************)
C24_SignupAfterVerification ==
    \A i \in 1..Len(users) :
        users[i].emailVerified => users[i].email \in verified

(***************************************************************************)
(* The codes of one e-mail address under a running clock, with and without *)
(* a user registered for the address.                                      *)
(***************************************************************************)
CodeInit ==
    /\ products = <<>>
    /\ history = [u \in Users |->
                    [recentlyViewedProducts |-> <<>>, sharedProducts |-> <<>>]]
    /\ nextId = 1
    /\ now = 1
    /\ response = [status |-> 0]
    /\ locals = NoLocals
    /\ users \in { <<>>, <<newUser(UserKey[1], UserIdBob, EmailA, Password)>> }
    /\ codes = {}
    /\ verified = {}
    /\ rooms = <<>>
    /\ reviews = <<>>
    /\ files = {}

CodeNext ==
    \/ SendCode(EmailA)
    \/ RecoverySendCode(EmailA)
    \/ \E code \in Codes : VerifyCode(EmailA, code)
    \/ \E code \in Codes : FindIdVerify(EmailA, code)
    \/ \E code \in Codes : FindPasswordReset(EmailA, code, Password)
    \/ Tick

CodeSpec == CodeInit /\ [][CodeNext]_vars

\* a verification request for the e-mail with the submitted code
Verifies(email, code) ==
    \/ VerifyCode(email, code)
    \/ FindIdVerify(email, code)
    \/ FindPasswordReset(email, code, Password)

\* the e-mail has a stored code that has not expired
Pending(email) == hasCode(email) /\ codeOf(email).expiresAt >= now

(***************************************************************************)
(* C25: while the stored code of an e-mail has not expired and has 5       *)
(* failed attempts, every verification for the e-mail (verify-code,        *)
(* find-id/verify, find-password/reset) answers 429 and changes neither    *)
(* the codes nor the users, whatever code is submitted; below the limit a  *)
(* wrong code adds exactly 1 to attempts and changes nothing else of the   *)
(* stored code; a send-code request stores a code with attempts 0; and     *)
(* attempts never exceeds 5.                                               *)
(***************************************************************************)
C25_LockedAfterFiveAttempts ==
    /\ [][\A email \in Emails, code \in Codes :
            /\ (/\ Pending(email)
                /\ codeOf(email).attempts >= AttemptLimit
                /\ Verifies(email, code))
                    => /\ response'.status = 429
                       /\ UNCHANGED <<codes, users, verified>>
            /\ (/\ Pending(email)
                /\ codeOf(email).attempts < AttemptLimit
                /\ codeOf(email).code # code
                /\ Verifies(email, code))
                    => /\ response'.status = 400
                       /\ codes' = (codes \ {codeOf(email)}) \cup
                            {[codeOf(email) EXCEPT
                                !.attempts = codeOf(email).attempts + 1]}
            /\ (SendCode(email) \/ (hasUser([email |-> email])
                                        /\ RecoverySendCode(email)))
                    => \E d \in codes' : d.email = email /\ d.attempts = 0]_vars
    /\ [](\A d \in codes : d.attempts <= AttemptLimit)

\* the stored code has 5 failed attempts, has not expired, and the last
\* verification was answered 429
C25_Witness ==
    /\ Pending(EmailA)
    /\ codeOf(EmailA).attempts = AttemptLimit
    /\ response.status = 429

(***************************************************************************)
(* Signup and user-info requests in flight at the same time.  Each request *)
(* reads the users (the e-mail test and the userId probes, or the userId   *)
(* test) in one step and writes in a later one; the steps of the requests  *)
(* interleave.                                                             *)
(***************************************************************************)
UserIdBob1 == <<"b", "o", "b", "1">>
UserIdAmy == <<"a", "m", "y">>
NewUserIds == {UserIdBob, UserIdBob1, UserIdAmy}

\* the ids of the users a run can create, as the authenticated callers
UserKeys == { UserKey[i] : i \in 1..Cardinality(Emails) }

\* signup up to the end of the userId loop
SignupProbe(r, userId, password, email) ==
    /\ locals[r].pc = "idle"
    /\ IF Len(userId) < 3 \/ trim(userId) = <<>>
       THEN /\ response' = [status |-> 400]
            /\ UNCHANGED locals
       ELSE IF hasUser([email |-> email])
       THEN /\ response' = [status |-> 409]
            /\ UNCHANGED locals
       ELSE LET finalUserId == probeUserId(trim(userId), 0)
            IN  IF finalUserId = Null
                THEN /\ response' = [status |-> 409]
                     /\ UNCHANGED locals
                ELSE /\ locals' = [locals EXCEPT ![r] =
                                    [pc |-> "probed", finalUserId |-> finalUserId,
                                     email |-> email, password |-> password]]
                     /\ UNCHANGED response
    /\ UNCHANGED <<products, history, nextId, now>>
    /\ UNCHANGED others

\* User.create of signup: the unique index on email rejects a second user
\* of the same e-mail with error 11000; the index on userId is not unique
SignupCreate(r) ==
    /\ locals[r].pc = "probed"
    /\ IF hasUser([email |-> locals[r].email])
       THEN /\ response' = [status |-> 409]
            /\ UNCHANGED users
       ELSE /\ users' = Append(users, newUser(UserKey[Len(users) + 1],
                                              locals[r].finalUserId,
                                              locals[r].email,
                                              locals[r].password))
            /\ response' = [status |-> 200, userId |-> locals[r].finalUserId,
                            email |-> locals[r].email]
    /\ locals' = [locals EXCEPT ![r] = Idle]
    /\ UNCHANGED <<products, history, nextId, now>>
    /\ UNCHANGED <<codes, verified, rooms, reviews, files>>

\* PATCH /api/auth/user-info with body { userId }, up to the userId test
UserInfoCheck(r, u, userId) ==
    /\ locals[r].pc = "idle"
    /\ IF u = NoUser
       THEN /\ response' = [status |-> 401]
            /\ UNCHANGED locals
       ELSE IF Len(userId) < 3
       THEN /\ response' = [status |-> 400]
            /\ UNCHANGED locals
       ELSE IF ~hasUser([_id |-> u])
       THEN /\ response' = [status |-> 404]
            /\ UNCHANGED locals
       ELSE LET user == users[userIndex([_id |-> u])]
            IN  IF userId # user.userId /\ hasUser([userId |-> userId])
                THEN /\ response' = [status |-> 409]
                     /\ UNCHANGED locals
                ELSE /\ locals' = [locals EXCEPT ![r] =
                                    [pc |-> "checked", user |-> u,
                                     userId |-> userId]]
                     /\ UNCHANGED response
    /\ UNCHANGED <<products, history, nextId, now>>
    /\ UNCHANGED others

\* user.userId = parsed.data.userId and user.save()
UserInfoSave(r) ==
    /\ locals[r].pc = "checked"
    /\ users' = [users EXCEPT ![userIndex([_id |-> locals[r].user])].userId =
                                    locals[r].userId]
    /\ response' = [status |-> 200, userId |-> locals[r].userId]
    /\ locals' = [locals EXCEPT ![r] = Idle]
    /\ UNCHANGED <<products, history, nextId, now>>
    /\ UNCHANGED <<codes, verified, rooms, reviews, files>>

SignupInit ==
    /\ products = <<>>
    /\ history = [u \in Users |->
                    [recentlyViewedProducts |-> <<>>, sharedProducts |-> <<>>]]
    /\ nextId = 1
    /\ now = 1
    /\ response = [status |-> 0]
    /\ locals = [r \in Requests |-> Idle]
    /\ OthersInit

SignupNext ==
    \/ \E r \in Requests, email \in Emails :
            SignupProbe(r, UserIdBob, Password, email)
    \/ \E r \in Requests : SignupCreate(r)
    \/ \E r \in Requests, u \in UserKeys \cup {NoUser}, userId \in NewUserIds :
            UserInfoCheck(r, u, userId)
    \/ \E r \in Requests : UserInfoSave(r)

SignupSpec == SignupInit /\ [][SignupNext]_vars

(***************************************************************************)
(* C26: in every reachable state the stored userId values are pairwise     *)
(* distinct.                                                               *)
(***************************************************************************)
C26_UserIdsDistinct ==
    \A i, j \in 1..Len(users) : i # j => users[i].userId # users[j].userId

(***************************************************************************)
(* POST /api/auth/shop/buy                                                 *)
(***************************************************************************)
prices == [waterCan |-> 25, fertilizer |-> 50, growthBooster |-> 100]

ShopItems == DOMAIN prices

\* the user field that counts an item
countField ==
    [waterCan |-> "gameWaterCans", fertilizer |-> "gameFertilizers",
     growthBooster |-> "gameGrowthBoosters"]

\* quantities a request can carry: 1..10 pass the schema, 0 and 11 do not
Quantities == 0..11

\* coins of the user when the run starts: gameCoins is 200 for a new user
\* and any number from 0 after PATCH /game
InitialCoins == {60, 200, 1000}

\* shop/buy without the test for enough coins
BuyItem_noCoinCheck(u, item, quantity) ==
    /\ IF u = NoUser
       THEN /\ response' = [status |-> 401]
            /\ UNCHANGED users
       ELSE IF item \notin ShopItems \/ quantity < 1 \/ quantity > 10
       THEN /\ response' = [status |-> 400]
            /\ UNCHANGED users
       ELSE IF ~hasUser([_id |-> u])
       THEN /\ response' = [status |-> 404]
            /\ UNCHANGED users
       ELSE LET i == userIndex([_id |-> u])
                user == users[i]
                totalCost == prices[item] * quantity
            IN  /\ users' =
                        [users EXCEPT
                            ![i].gameCoins = user.gameCoins - totalCost,
                            ![i][countField[item]] = @ + quantity]
                     /\ response' =
                            [status |-> 200, item |-> item,
                             quantity |-> quantity, cost |-> totalCost,
                             remainingCoins |-> user.gameCoins - totalCost]
    /\ UNCHANGED <<products, history, nextId, now, locals>>
    /\ UNCHANGED <<codes, verified, rooms, reviews, files>>

BuyItem(u, item, quantity) ==
    /\ IF u = NoUser
       THEN /\ response' = [status |-> 401]
            /\ UNCHANGED users
       ELSE IF item \notin ShopItems \/ quantity < 1 \/ quantity > 10
       THEN /\ response' = [status |-> 400]
            /\ UNCHANGED users
       ELSE IF ~hasUser([_id |-> u])
       THEN /\ response' = [status |-> 404]
            /\ UNCHANGED users
       ELSE LET i == userIndex([_id |-> u])
                user == users[i]
                totalCost == prices[item] * quantity
            IN  IF user.gameCoins < totalCost
                THEN /\ response' = [status |-> 400]
                     /\ UNCHANGED users
                ELSE /\ users' =
                        [users EXCEPT
                            ![i].gameCoins = user.gameCoins - totalCost,
                            ![i][countField[item]] = @ + quantity]
                     /\ response' =
                            [status |-> 200, item |-> item,
                             quantity |-> quantity, cost |-> totalCost,
                             remainingCoins |-> user.gameCoins - totalCost]
    /\ UNCHANGED <<products, history, nextId, now, locals>>
    /\ UNCHANGED <<codes, verified, rooms, reviews, files>>

ShopInit ==
    /\ products = <<>>
    /\ history = [u \in Users |->
                    [recentlyViewedProducts |-> <<>>, sharedProducts |-> <<>>]]
    /\ nextId = 1
    /\ now = 1
    /\ response = [status |-> 0]
    /\ locals = NoLocals
    /\ \E coins \in InitialCoins :
            users = << [newUser(UserKey[1], UserIdBob, EmailA, Password)
                            EXCEPT !.gameCoins = coins] >>
    /\ codes = {}
    /\ verified = {}
    /\ rooms = <<>>
    /\ reviews = <<>>
    /\ files = {}

ShopNext ==
    \E u \in Callers \cup Strangers, item \in ShopItems, quantity \in Quantities :
        BuyItem(u, item, quantity)

ShopSpec == ShopInit /\ [][ShopNext]_vars

(***************************************************************************)
(* C30: a purchase of 1..10 items whose total cost (25, 50 or 100 times    *)
(* the quantity) exceeds the user's gameCoins answers 400 and leaves the   *)
(* user unchanged; any other such purchase takes exactly the total cost    *)
(* from gameCoins, adds exactly the quantity to the count of the bought    *)
(* item and leaves the other counts unchanged; and gameCoins is never      *)
(* negative.                                                               *)
(***************************************************************************)
C30_PurchaseWithinCoins ==
    /\ [][\A item \in ShopItems, quantity \in 1..10 :
            BuyItem(UserKey[1], item, quantity) =>
                LET totalCost == prices[item] * quantity
                IN  IF totalCost > users[1].gameCoins
                    THEN response'.status = 400 /\ UNCHANGED users
                    ELSE /\ response'.status = 200
                         /\ users'[1].gameCoins =
                                users[1].gameCoins - totalCost
                         /\ \A other \in ShopItems :
                                users'[1][countField[other]] =
                                    users[1][countField[other]]
                                        + (IF other = item THEN quantity ELSE 0)]_vars
    /\ [](\A i \in 1..Len(users) : users[i].gameCoins >= 0)

\* after buying two water cans with 60 coins the user holds 10 coins and 5
\* cans, and the next purchase was refused
C30_Witness ==
    /\ response.status = 400
    /\ users[1].gameCoins = 10
    /\ users[1].gameWaterCans = 5

(***************************************************************************)
(* POST /api/chat/open, with requests in flight at the same time.  rooms   *)
(* is the ChatRoom collection in insertion order; no handler deletes a     *)
(* room.                                                                   *)
(***************************************************************************)
Buyers == {"u2", "u3"}

hasRoom(product, buyer) ==
    \E i \in 1..Len(rooms) :
        rooms[i].product = product /\ rooms[i].buyer = buyer

\* ChatRoom.findOne({ product, buyer })
roomOf(product, buyer) ==
    rooms[CHOOSE i \in 1..Len(rooms) :
            rooms[i].product = product /\ rooms[i].buyer = buyer]

\* ChatRoom.findOne({ product }).sort({ updatedAt: -1 }): no handler of the
\* model writes to a room, so the latest is the last one created
latestRoomOf(product) ==
    rooms[CHOOSE i \in 1..Len(rooms) :
            /\ rooms[i].product = product
            /\ \A j \in (i + 1)..Len(rooms) : rooms[j].product # product]

\* the handler up to the room lookup; buyerId is Null when the body has none
OpenFind(r, authUser, productId, buyerId) ==
    /\ locals[r].pc = "idle"
    /\ IF authUser = NoUser
       THEN /\ response' = [status |-> 401]
            /\ UNCHANGED locals
       ELSE IF ~exists(productId)
       THEN /\ response' = [status |-> 404]
            /\ UNCHANGED locals
       ELSE LET product == findById(productId)
                isSeller == product.seller = authUser
                buyer == IF isSeller THEN buyerId ELSE authUser
            IN  IF ~isSeller /\ buyerId # Null /\ buyerId # authUser
                THEN /\ response' = [status |-> 400]
                     /\ UNCHANGED locals
                ELSE IF buyer # Null /\ hasRoom(productId, buyer)
                THEN /\ response' =
                        [status |-> 200, room |-> roomOf(productId, buyer)]
                     /\ UNCHANGED locals
                ELSE IF isSeller
                THEN /\ response' =
                        IF \E i \in 1..Len(rooms) : rooms[i].product = productId
                        THEN [status |-> 200, room |-> latestRoomOf(productId)]
                        ELSE [status |-> 404]
                     /\ UNCHANGED locals
                ELSE /\ locals' = [locals EXCEPT ![r] =
                                    [pc |-> "creating", product |-> productId,
                                     buyer |-> authUser,
                                     seller |-> product.seller]]
                     /\ UNCHANGED response
    /\ UNCHANGED <<products, history, nextId, now>>
    /\ UNCHANGED others

\* ChatRoom.create with no unique index on (product, buyer)
OpenCreate_noUniqueIndex(r) ==
    /\ locals[r].pc = "creating"
    /\ LET room == [_id |-> Len(rooms) + 1, product |-> locals[r].product,
                    buyer |-> locals[r].buyer, seller |-> locals[r].seller,
                    messages |-> <<>>]
       IN  /\ rooms' = Append(rooms, room)
           /\ response' = [status |-> 200, room |-> room]
    /\ locals' = [locals EXCEPT ![r] = Idle]
    /\ UNCHANGED <<products, history, nextId, now>>
    /\ UNCHANGED <<users, codes, verified, reviews, files>>

\* ChatRoom.create: the unique index on (product, buyer) rejects a second
\* room of the pair with error 11000, and the handler then finds and
\* returns the stored one
OpenCreate(r) ==
    /\ locals[r].pc = "creating"
    /\ IF hasRoom(locals[r].product, locals[r].buyer)
       THEN /\ response' =
                [status |-> 200,
                 room |-> roomOf(locals[r].product, locals[r].buyer)]
            /\ UNCHANGED rooms
       ELSE LET room == [_id |-> Len(rooms) + 1, product |-> locals[r].product,
                         buyer |-> locals[r].buyer, seller |-> locals[r].seller,
                         messages |-> <<>>]
            IN  /\ rooms' = Append(rooms, room)
                /\ response' = [status |-> 200, room |-> room]
    /\ locals' = [locals EXCEPT ![r] = Idle]
    /\ UNCHANGED <<products, history, nextId, now>>
    /\ UNCHANGED <<users, codes, verified, reviews, files>>

ChatNext ==
    \/ \E r \in Requests, authUser \in Callers \cup Buyers, id \in ProductIds,
          buyerId \in Buyers \cup {Null} :
            OpenFind(r, authUser, id, buyerId)
    \/ \E r \in Requests : OpenCreate(r)

ChatSpec == RequestsInit /\ [][ChatNext]_vars

(***************************************************************************)
(* C27: in every reachable state there is at most one chat room per        *)
(* (product, buyer) pair; a buyer's open request that reaches the create   *)
(* answers 200 with the one stored room of its pair, also when another     *)
(* request created that room in between; and rooms are only added, so all  *)
(* requests of a pair are answered with the same room.                     *)
(***************************************************************************)
C27_OneRoomPerPair ==
    /\ [](\A i, j \in 1..Len(rooms) :
            (rooms[i].product = rooms[j].product
                /\ rooms[i].buyer = rooms[j].buyer) => i = j)
    /\ [][/\ Len(rooms') >= Len(rooms)
          /\ SubSeq(rooms', 1, Len(rooms)) = rooms
          /\ \A r \in Requests :
                OpenCreate(r) =>
                    /\ response'.status = 200
                    /\ response'.room \in Range(rooms')
                    /\ response'.room.product = locals[r].product
                    /\ response'.room.buyer = locals[r].buyer]_vars

\* two requests of the same buyer for the same listing were both past the
\* lookup; r1 has created the room and was answered with it, and r2 is
\* about to run its create for the same pair
C27_Witness ==
    /\ Len(rooms) = 1
    /\ response = [status |-> 200, room |-> rooms[1]]
    /\ locals["r1"].pc = "idle"
    /\ locals["r2"].pc = "creating"
    /\ locals["r2"].product = rooms[1].product
    /\ locals["r2"].buyer = rooms[1].buyer

(***************************************************************************)
(* The reviews router: DELETE /api/reviews/:id and POST                    *)
(* /api/reviews/:id/complete, with requests in flight at the same time.    *)
(* reviews is the Review collection.  A request loads the review in one    *)
(* step and writes in a later one.                                         *)
(***************************************************************************)
Ratings == 1..5
ReviewIds == {1, 2}

hasReview(id) == \E i \in 1..Len(reviews) : reviews[i]._id = id

\* Review.findById(id)
reviewOf(id) == reviews[CHOOSE i \in 1..Len(reviews) : reviews[i]._id = id]

\* 25 * (review.rating / 5)
progressIncrease(rating) == (25 * rating) \div 5

\* the progress update of one user of the completed transaction
addProgress(user, increase) ==
    LET currentProgress == user.gameProgressPct
        newProgress == Min(100, currentProgress + increase)
    IN  IF newProgress >= 100 /\ currentProgress < 100
        THEN [user EXCEPT !.gameLevel = @ + 1,
                          !.gameProgressPct = 0,
                          !.gameLevelUpRewardPending = TRUE]
        ELSE [user EXCEPT !.gameProgressPct = newProgress]

\* complete, up to the test of transactionCompleted
CompleteFind(r, user, id) ==
    /\ locals[r].pc = "idle"
    /\ IF user = NoUser
       THEN /\ response' = [status |-> 401]
            /\ UNCHANGED locals
       ELSE IF ~hasReview(id) \/ ~exists(reviewOf(id).product)
       THEN /\ response' = [status |-> 404]
            /\ UNCHANGED locals
       ELSE IF findById(reviewOf(id).product).seller # user
       THEN /\ response' = [status |-> 403]
            /\ UNCHANGED locals
       ELSE IF reviewOf(id).transactionCompleted
       THEN /\ response' = [status |-> 400]
            /\ UNCHANGED locals
       ELSE /\ locals' = [locals EXCEPT ![r] =
                            [pc |-> "completing", user |-> user,
                             review |-> reviewOf(id)]]
            /\ UNCHANGED response
    /\ UNCHANGED <<products, history, nextId, now>>
    /\ UNCHANGED others

\* complete, from review.save() on: the save sets transactionCompleted with
\* no test of the stored value and fails only when the review is gone; then
\* the listing and its images are deleted and both users get the progress
CompleteSave(r) ==
    /\ locals[r].pc = "completing"
    /\ LET review == locals[r].review
           increase == progressIncrease(review.rating)
       IN  IF ~hasReview(review._id)
           THEN /\ response' = [status |-> 500]
                /\ UNCHANGED <<products, reviews, users, files>>
           ELSE /\ reviews' =
                    [i \in 1..Len(reviews) |->
                        IF reviews[i]._id = review._id
                        THEN [reviews[i] EXCEPT !.transactionCompleted = TRUE]
                        ELSE reviews[i]]
                /\ files' \in deleteProductImages(
                                IF exists(review.product)
                                THEN Range(findById(review.product).images)
                                ELSE {})
                /\ products' = findByIdAndDelete(review.product)
                /\ users' =
                    [i \in 1..Len(users) |->
                        IF users[i]._id \in {locals[r].user, review.author}
                        THEN addProgress(users[i], increase)
                        ELSE users[i]]
                /\ response' = [status |-> 200, review |-> review._id]
    /\ locals' = [locals EXCEPT ![r] = Idle]
    /\ UNCHANGED <<history, nextId, now>>
    /\ UNCHANGED <<codes, verified, rooms>>

\* DELETE /api/reviews/:id, up to the test of transactionCompleted
ReviewDeleteFind(r, user, id) ==
    /\ locals[r].pc = "idle"
    /\ IF user = NoUser
       THEN /\ response' = [status |-> 401]
            /\ UNCHANGED locals
       ELSE IF ~hasReview(id)
       THEN /\ response' = [status |-> 404]
            /\ UNCHANGED locals
       ELSE IF reviewOf(id).author # user
       THEN /\ response' = [status |-> 403]
            /\ UNCHANGED locals
       ELSE IF reviewOf(id).transactionCompleted
       THEN /\ response' = [status |-> 400]
            /\ UNCHANGED locals
       ELSE /\ locals' = [locals EXCEPT ![r] = [pc |-> "deleting", review |-> id]]
            /\ UNCHANGED response
    /\ UNCHANGED <<products, history, nextId, now>>
    /\ UNCHANGED others

\* Review.findByIdAndDelete(req.params.id)
ReviewDeleteSave(r) ==
    /\ locals[r].pc = "deleting"
    /\ reviews' = SelectSeq(reviews, LAMBDA d : d._id # locals[r].review)
    /\ response' = [status |-> 200]
    /\ locals' = [locals EXCEPT ![r] = Idle]
    /\ UNCHANGED <<products, history, nextId, now>>
    /\ UNCHANGED <<users, codes, verified, rooms, files>>

\* the seller u1 has listing 1 with an uploaded image; the buyer u2 has
\* written review 1 for it, with any rating
ReviewInit ==
    /\ products =
        << [created(1, [title |-> TitleBike, category |-> CatA]) EXCEPT
                !.images = <<UploadA>>] >>
    /\ history = [u \in Users |->
                    [recentlyViewedProducts |-> <<>>, sharedProducts |-> <<>>]]
    /\ nextId = 2
    /\ now = 1
    /\ response = [status |-> 0]
    /\ locals = [r \in Requests |-> Idle]
    /\ users = << newUser("u1", UserIdBob, EmailA, Password),
                  newUser("u2", UserIdAmy, EmailB, Password) >>
    /\ \E rating \in Ratings :
            reviews = << [_id |-> 1, product |-> 1, author |-> "u2",
                          rating |-> rating,
                          transactionCompleted |-> FALSE] >>
    /\ codes = {}
    /\ verified = {}
    /\ rooms = <<>>
    /\ files = {UploadA}

ReviewNext ==
    \/ \E r \in Requests, user \in Callers \cup Strangers, id \in ReviewIds :
            CompleteFind(r, user, id)
    \/ \E r \in Requests : CompleteSave(r)
    \/ \E r \in Requests, user \in Callers \cup Strangers, id \in ReviewIds :
            ReviewDeleteFind(r, user, id)
    \/ \E r \in Requests : ReviewDeleteSave(r)

ReviewSpec == ReviewInit /\ [][ReviewNext]_vars

(***************************************************************************)
(* C28: under any interleaving of complete and delete requests for review  *)
(* 1, the progress of the seller and of the buyer, both 0 at the start, is *)
(* raised by the review's increase (25 * rating / 5) at most once; a       *)
(* review with transactionCompleted = true stays stored and stays          *)
(* completed.                                                              *)
(***************************************************************************)
C28_CompletionAtMostOnce ==
    /\ [](\A i \in 1..Len(users), j \in 1..Len(reviews) :
            users[i].gameProgressPct <= progressIncrease(reviews[j].rating))
    /\ [][\A id \in ReviewIds :
            (hasReview(id) /\ reviewOf(id).transactionCompleted) =>
                \E j \in 1..Len(reviews') :
                    /\ reviews'[j]._id = id
                    /\ reviews'[j].transactionCompleted]_vars

====
